---------------------------- MODULE Spec2Model ----------------------------
(***************************************************************************)
(* State-machine model of the block-paged heap file (class Database) and   *)
(* of the persistent B+ tree index (class BPTree).                         *)
(*                                                                         *)
(* Floats are modelled by naturals (KeyUnit * k stands for a normal float, *)
(* 0 for 0.0f), records by small naturals (0 is the all-zero Record).      *)
(* Arrays are 1-based sequences: C slot i is element i + 1.                *)
(*                                                                         *)
(* The std::fstream of each class is modelled by two flags: is_open and    *)
(* failbit.  A read past the end of the file sets failbit; while failbit   *)
(* is set every seek, read and write on the stream is a no-op, and no      *)
(* method of either class ever clears it (only a successful open() does).  *)
(* The I/O tallies of readBlock / writeBlock / readNode / writeNode are    *)
(* fields of the instance: two counters and the set of page ids touched.   *)
(***************************************************************************)
EXTENDS Integers, Naturals, Sequences, FiniteSets, TLC

(***************************************************************************)
(* Bounds of the model                                                     *)
(***************************************************************************)
\* record slots of one (scaled) block; the program's block holds 92
BlockSlots == 2
\* the capacity cap in (scaled) blocks; the program's is 25600 blocks' worth
CapBlocks == 4
\* distinct non-zero record values offered to addRecord
MaxRecordValue == 2
\* successful addRecord calls in one run
MaxAdds == 7
\* calls of addBlock / writeBlock / deleteRecord / readBlock in one run
MaxOther == 1
\* block reads and writes one Database instance counts before addRecord and
\* getAllRecords are no longer called on it
MaxIos == 13

(***************************************************************************)
(* Program constants of the storage layer                                  *)
(***************************************************************************)
RECORD_SIZE == 44
HEADER_SIZE == 16
\* scaled from 4096 so that MAX_RECORDS = BlockSlots
BLOCK_SIZE == HEADER_SIZE + BlockSlots * RECORD_SIZE
DATA_SIZE == BLOCK_SIZE - HEADER_SIZE
MAX_RECORDS == DATA_SIZE \div RECORD_SIZE
\* scaled from 100 * 1024 * 1024 = 25600 * 4096
MAX_DATABASE_SIZE == CapBlocks * BLOCK_SIZE
METADATA_SIZE == 8

VARIABLES
    db,        \* the Database instance: file.is_open, failbit, num_blocks, num_records
    disk,      \* the heap file: exists, header (hdr_blocks, hdr_records), blocks
    dbOp,      \* the last Database call: name, arguments, return value
    dbGhost,   \* history: records inserted, values saved at close, phase
    bt,        \* the BPTree instance: file.is_open, failbit, root_id, next_node_id
    ifile,     \* the index file: exists, header (hdr_root, hdr_next), node pages
    btOp,      \* the last BPTree call: name, arguments, return value
    btGhost,   \* history: which entries were handed to the index, and how
    drv,       \* the driver (main.cpp): its position, its loop counter, the
               \* instances whose stream is open
    codec,     \* two RecordPointers on their way into a leaf slot and back
    parser,    \* Parser::parseFile: its position, the line read, the records kept
    run        \* main on the two files: its position and the locals of task3

heapVars == <<db, disk, dbOp, dbGhost>>

idxVars == <<bt, ifile, btOp, btGhost>>

vars == <<db, disk, dbGhost, dbOp, bt, ifile, btGhost, btOp, drv, codec, parser, run>>

(***************************************************************************)
(* Pure helpers                                                            *)
(***************************************************************************)
\* F applied to the value x: names an intermediate result once
Bind(x, F(_)) == F(x)

Max(a, b) == IF a >= b THEN a ELSE b

Min(a, b) == IF a <= b THEN a ELSE b

CeilDiv(a, b) == (a + b - 1) \div b

RECURSIVE SumSeq(_)
SumSeq(s) == IF s = <<>> THEN 0 ELSE Head(s) + SumSeq(Tail(s))

RECURSIVE ConcatAll(_)
ConcatAll(ss) == IF ss = <<>> THEN <<>> ELSE Head(ss) \o ConcatAll(Tail(ss))

(***************************************************************************)
(* Record and Block (src/src/storage/record.h, block.h)                    *)
(***************************************************************************)
EmptyRecord == 0

Records == 1..MaxRecordValue

\* Block(): memset(this, 0, sizeof(Block))
NewBlock ==
    [block_id |-> 0, num_records |-> 0, next_block |-> 0,
     data |-> [i \in 1..MAX_RECORDS |-> EmptyRecord]]

Block_isFull_off(b) == b.num_records > MAX_RECORDS

Block_isFull(b) == b.num_records >= MAX_RECORDS

Block_addRecord(b, r) ==
    IF b.num_records >= MAX_RECORDS
    THEN b
    ELSE [b EXCEPT !.data[b.num_records + 1] = r, !.num_records = @ + 1]

\* getRecord(-1) copies the 44 bytes in front of data[]: the 16 bytes of the
\* header and 28 bytes in front of the block, whose value `ub` is whatever
\* the stack holds; the record is zero only if all of them are
Block_getRecord(b, index, ub) ==
    IF index >= b.num_records THEN EmptyRecord
    ELSE IF index < 0
    THEN IF b.block_id # 0 \/ b.num_records # 0 \/ b.next_block # 0
         THEN Max(ub, 1) ELSE ub
    ELSE b.data[index + 1]

Block_getNumRecords(b) == b.num_records

(***************************************************************************)
(* Database (src/unnamed/part_001; declared in src/src/storage/record.h)   *)
(* Each method is an operator from the instance d and the file f to the    *)
(* instance, the file and the returned value after the call.               *)
(***************************************************************************)
\* Database::Database: num_blocks(0), num_records(0), stream closed
Database_new ==
    [is_open |-> FALSE, failbit |-> FALSE, num_blocks |-> 0, num_records |-> 0,
     data_blocks_accessed |-> 0, total_data_block_ios |-> 0, unique_data_blocks |-> {}]

NoFile == [exists |-> FALSE, hdr_blocks |-> 0, hdr_records |-> 0, blocks |-> <<>>]

Database_writeMetadata_off(d, f) ==
    IF ~d.is_open \/ d.failbit THEN f
    ELSE [f EXCEPT !.hdr_blocks = d.num_blocks]

Database_writeMetadata(d, f) ==
    IF ~d.is_open \/ d.failbit THEN f
    ELSE [f EXCEPT !.hdr_blocks = d.num_blocks, !.hdr_records = d.num_records]

Database_readMetadata(d, f) ==
    IF ~d.is_open \/ d.failbit THEN d
    ELSE [d EXCEPT !.num_blocks = f.hdr_blocks, !.num_records = f.hdr_records]

\* open() on an instance whose stream is already open: basic_filebuf::open
\* returns null, the stream sets failbit and stays open.
Database_open(d, f) ==
    IF d.is_open
    THEN LET d1 == [d EXCEPT !.failbit = TRUE]
         IN  [d |-> Database_readMetadata(d1, f), f |-> f, ret |-> TRUE]
    ELSE IF f.exists
    THEN LET d1 == [d EXCEPT !.is_open = TRUE, !.failbit = FALSE]
         IN  [d |-> Database_readMetadata(d1, f), f |-> f, ret |-> TRUE]
    ELSE LET d1 == [d EXCEPT !.is_open = TRUE, !.failbit = FALSE]
             f1 == [f EXCEPT !.exists = TRUE]
         IN  [d |-> d1, f |-> Database_writeMetadata(d1, f1), ret |-> TRUE]

Database_close_off(d, f) ==
    IF d.is_open
    THEN [d |-> [d EXCEPT !.is_open = FALSE], f |-> Database_writeMetadata(d, f)]
    ELSE [d |-> [d EXCEPT !.num_blocks = 0, !.num_records = 0], f |-> f]

Database_close(d, f) ==
    IF d.is_open
    THEN [d |-> [d EXCEPT !.is_open = FALSE], f |-> Database_writeMetadata(d, f)]
    ELSE [d |-> d, f |-> f]

\* data_blocks_accessed++; total_data_block_ios++; unique_data_blocks.insert
CountBlockIO(d, block_id) ==
    [d EXCEPT !.data_blocks_accessed = @ + 1,
              !.total_data_block_ios = @ + 1,
              !.unique_data_blocks = @ \cup {block_id}]

\* file.read of a whole block: fails (failbit) when the stream has failed
\* before, or the block lies outside the file
\* data_blocks_accessed = 0; total_data_block_ios = 0; unique_data_blocks.clear()
Database_resetIOCounters(d) ==
    [d EXCEPT !.data_blocks_accessed = 0, !.total_data_block_ios = 0,
              !.unique_data_blocks = {}]

\* a readBlock that counts the reads that succeed only
Database_readBlock_off(d, f, block_id) ==
    IF ~d.is_open
    THEN [d |-> d, f |-> f, ret |-> FALSE, block |-> NewBlock]
    ELSE IF d.failbit \/ block_id < 0 \/ block_id >= Len(f.blocks)
    THEN [d |-> [d EXCEPT !.failbit = TRUE], f |-> f,
          ret |-> FALSE, block |-> NewBlock]
    ELSE [d |-> CountBlockIO(d, block_id), f |-> f, ret |-> TRUE,
          block |-> f.blocks[block_id + 1]]

Database_readBlock(d, f, block_id) ==
    IF ~d.is_open
    THEN [d |-> d, f |-> f, ret |-> FALSE, block |-> NewBlock]
    ELSE IF d.failbit \/ block_id < 0 \/ block_id >= Len(f.blocks)
    THEN [d |-> CountBlockIO([d EXCEPT !.failbit = TRUE], block_id), f |-> f,
          ret |-> FALSE, block |-> NewBlock]
    ELSE [d |-> CountBlockIO(d, block_id), f |-> f, ret |-> TRUE,
          block |-> f.blocks[block_id + 1]]

\* a write past the end of the file leaves a hole of zero bytes
Database_writeBlock(d, f, block_id, block) ==
    IF ~d.is_open
    THEN [d |-> d, f |-> f, ret |-> FALSE]
    ELSE IF d.failbit \/ block_id < 0
    THEN [d |-> CountBlockIO([d EXCEPT !.failbit = TRUE], block_id), f |-> f,
          ret |-> FALSE]
    ELSE LET n == Max(Len(f.blocks), block_id + 1)
             blocks == [i \in 1..n |->
                          IF i = block_id + 1 THEN block
                          ELSE IF i <= Len(f.blocks) THEN f.blocks[i]
                          ELSE NewBlock]
         IN  [d |-> CountBlockIO(d, block_id), f |-> [f EXCEPT !.blocks = blocks],
              ret |-> TRUE]

\* an addBlock that persists the metadata after it has written the block
Database_addBlock_off(d, f, block) ==
    IF ~d.is_open
    THEN [d |-> d, f |-> f, ret |-> -1]
    ELSE LET block_id == d.num_blocks
             w == Database_writeBlock(d, f, block_id, block)
             d1 == [w.d EXCEPT !.num_blocks = @ + 1]
         IN  IF w.ret
             THEN [d |-> d1, f |-> Database_writeMetadata(d1, w.f), ret |-> block_id]
             ELSE [d |-> w.d, f |-> w.f, ret |-> -1]

Database_addBlock(d, f, block) ==
    IF ~d.is_open
    THEN [d |-> d, f |-> f, ret |-> -1]
    ELSE LET block_id == d.num_blocks
             w == Database_writeBlock(d, f, block_id, block)
         IN  IF w.ret
             THEN [d |-> [w.d EXCEPT !.num_blocks = @ + 1], f |-> w.f, ret |-> block_id]
             ELSE [d |-> w.d, f |-> w.f, ret |-> -1]

Database_addRecord_newBlock_off(d, f, record) ==
    LET current_size == d.num_blocks * BLOCK_SIZE + METADATA_SIZE
    IN  IF current_size > MAX_DATABASE_SIZE
        THEN [d |-> d, f |-> f, ret |-> FALSE]
        ELSE LET newBlock == Block_addRecord([NewBlock EXCEPT !.block_id = d.num_blocks], record)
                 a == Database_addBlock(d, f, newBlock)
             IN  IF a.ret # -1
                 THEN [d |-> [a.d EXCEPT !.num_records = @ + 1], f |-> a.f, ret |-> TRUE]
                 ELSE [d |-> a.d, f |-> a.f, ret |-> FALSE]

\* Steps 2 and 3 of addRecord: the capacity check, then a new block
Database_addRecord_newBlock(d, f, record) ==
    LET current_size == d.num_blocks * BLOCK_SIZE + METADATA_SIZE
    IN  IF current_size + BLOCK_SIZE > MAX_DATABASE_SIZE
        THEN [d |-> d, f |-> f, ret |-> FALSE]
        ELSE LET newBlock == Block_addRecord([NewBlock EXCEPT !.block_id = d.num_blocks], record)
                 a == Database_addBlock(d, f, newBlock)
             IN  IF a.ret # -1
                 THEN [d |-> [a.d EXCEPT !.num_records = @ + 1], f |-> a.f, ret |-> TRUE]
                 ELSE [d |-> a.d, f |-> a.f, ret |-> FALSE]

Database_addRecord(d, f, record) ==
    IF d.num_blocks > 0
    THEN LET r == Database_readBlock(d, f, d.num_blocks - 1)
         IN  IF r.ret /\ ~Block_isFull(r.block)
             THEN LET w == Database_writeBlock(r.d, r.f, d.num_blocks - 1,
                                               Block_addRecord(r.block, record))
                  IN  [d |-> [w.d EXCEPT !.num_records = @ + 1], f |-> w.f, ret |-> TRUE]
             ELSE Database_addRecord_newBlock(r.d, r.f, record)
    ELSE Database_addRecord_newBlock(d, f, record)

Database_getRecord(d, f, block_id, record_index, ub) ==
    LET r == Database_readBlock(d, f, block_id)
    IN  [d |-> r.d, f |-> r.f,
         ret |-> IF r.ret THEN Block_getRecord(r.block, record_index, ub) ELSE EmptyRecord]

\* a deleteRecord that also takes the record out of the block's count
Database_deleteRecord_off(d, f, block_id, record_index) ==
    LET r == Database_readBlock(d, f, block_id)
    IN  IF r.ret
        THEN Database_writeBlock(r.d, r.f, block_id,
                                 [r.block EXCEPT !.data[record_index + 1] = EmptyRecord,
                                                 !.num_records = Max(@ - 1, 0)])
        ELSE [d |-> r.d, f |-> r.f, ret |-> FALSE]

\* record_index is drawn from 0..MAX_RECORDS-1: the memcpy stays in the block
Database_deleteRecord(d, f, block_id, record_index) ==
    LET r == Database_readBlock(d, f, block_id)
    IN  IF r.ret
        THEN Database_writeBlock(r.d, r.f, block_id,
                                 [r.block EXCEPT !.data[record_index + 1] = EmptyRecord])
        ELSE [d |-> r.d, f |-> r.f, ret |-> FALSE]

BlockRecords(b) ==
    [j \in 1..Block_getNumRecords(b) |-> Block_getRecord(b, j - 1, EmptyRecord)]

\* the loop of getAllRecords from block i on
RECURSIVE Database_getAllRecords_from(_, _, _)
Database_getAllRecords_from(d, f, i) ==
    IF i >= d.num_blocks
    THEN [d |-> d, f |-> f, ret |-> <<>>]
    ELSE LET r == Database_readBlock(d, f, i)
             rest == Database_getAllRecords_from(r.d, r.f, i + 1)
         IN  [d |-> rest.d, f |-> rest.f,
              ret |-> (IF r.ret THEN BlockRecords(r.block) ELSE <<>>) \o rest.ret]

Database_getAllRecords(d, f) == Database_getAllRecords_from(d, f, 0)

(***************************************************************************)
(* The heap as a state machine                                             *)
(***************************************************************************)
\* blocks a caller hands to addBlock / writeBlock: k records of value 1
CallerBlock(k) ==
    [block_id |-> 0, num_records |-> k, next_block |-> 0,
     data |-> [i \in 1..MAX_RECORDS |-> IF i <= k THEN 1 ELSE EmptyRecord]]

CallerBlocks == {CallerBlock(k) : k \in 0..MAX_RECORDS}

BlockIds == 0..CapBlocks

SlotIds == 0..(MAX_RECORDS - 1)

\* the indexes getRecord is called with: one below and one above the slots
RecordIndexes == -1..MAX_RECORDS

\* what the bytes in front of a block can hold, as a record value
StackValues == {EmptyRecord} \cup Records

\* the instance has counted at most MaxIos - k block reads and writes
IoRoom(k) == db.total_data_block_ios + k <= MaxIos

\* a call outside the open / addRecord / close / getAllRecords pattern
OtherCall(g) ==
    [g EXCEPT !.phase = "other", !.other = @ + 1, !.inserted = <<>>,
              !.closeBlocks = 0, !.closeRecords = 0]

\* open() of an instance that is not open
DbOpen ==
    /\ ~db.is_open
    /\ LET o == Database_open(db, disk)
       IN  /\ db' = o.d
           /\ disk' = o.f
           /\ dbOp' = [name |-> "open", arg |-> <<>>, ret |-> o.ret]
           /\ dbGhost' = IF dbGhost.phase = "new"
                         THEN [dbGhost EXCEPT !.phase = "filling"]
                         ELSE IF dbGhost.phase = "closed"
                         THEN [dbGhost EXCEPT !.phase = "reopened"]
                         ELSE dbGhost
    /\ UNCHANGED <<idxVars, drv, codec, parser, run>>

\* open() of an instance that is open already
DbOpenAgain ==
    /\ db.is_open
    /\ dbGhost.other < MaxOther
    /\ LET o == Database_open(db, disk)
       IN  /\ db' = o.d
           /\ disk' = o.f
           /\ dbOp' = [name |-> "open", arg |-> <<>>, ret |-> o.ret]
           /\ dbGhost' = OtherCall(dbGhost)
    /\ UNCHANGED <<idxVars, drv, codec, parser, run>>

DbClose ==
    /\ LET o == Database_close(db, disk)
       IN  /\ db' = o.d
           /\ disk' = o.f
           /\ dbOp' = [name |-> "close", arg |-> <<>>, ret |-> TRUE]
           /\ dbGhost' = IF db.is_open /\ dbGhost.phase \in {"filling", "reopened"}
                         THEN [dbGhost EXCEPT !.phase = "closed",
                                              !.closeBlocks = db.num_blocks,
                                              !.closeRecords = db.num_records]
                         ELSE dbGhost
    /\ UNCHANGED <<idxVars, drv, codec, parser, run>>

\* ~Database() of the old instance (it closes), then Database() of a new one
DbNewInstance ==
    /\ LET o == Database_close(db, disk)
       IN  /\ db' = Database_new
           /\ disk' = o.f
           /\ dbOp' = [name |-> "new", arg |-> <<>>, ret |-> TRUE]
           /\ dbGhost' = IF db.is_open /\ dbGhost.phase \in {"filling", "reopened"}
                         THEN [dbGhost EXCEPT !.phase = "closed",
                                              !.closeBlocks = db.num_blocks,
                                              !.closeRecords = db.num_records]
                         ELSE dbGhost
    /\ UNCHANGED <<idxVars, drv, codec, parser, run>>

AddRecord(record) ==
    /\ dbGhost.adds < MaxAdds
    /\ IoRoom(2)
    /\ LET o == Database_addRecord(db, disk, record)
       IN  /\ db' = o.d
           /\ disk' = o.f
           /\ dbOp' = [name |-> "addRecord", arg |-> <<>>, ret |-> o.ret]
           /\ dbGhost' = [dbGhost EXCEPT
                            !.inserted = IF o.ret /\ dbGhost.phase # "other"
                                         THEN Append(@, record) ELSE @,
                            !.adds = IF o.ret THEN @ + 1 ELSE @,
                            !.phase = IF @ = "reopened" /\ o.ret THEN "filling" ELSE @,
                            !.closeBlocks = IF dbGhost.phase = "reopened" /\ o.ret
                                            THEN 0 ELSE @,
                            !.closeRecords = IF dbGhost.phase = "reopened" /\ o.ret
                                             THEN 0 ELSE @]
    /\ UNCHANGED <<idxVars, drv, codec, parser, run>>

GetAllRecords ==
    /\ IoRoom(db.num_blocks)
    /\ LET o == Database_getAllRecords(db, disk)
       IN  /\ db' = o.d
           /\ disk' = o.f
           /\ dbOp' = [name |-> "getAllRecords", arg |-> <<>>, ret |-> o.ret]
           /\ dbGhost' = dbGhost
    /\ UNCHANGED <<idxVars, drv, codec, parser, run>>

AddBlock(block) ==
    /\ dbGhost.other < MaxOther
    /\ LET o == Database_addBlock(db, disk, block)
       IN  /\ db' = o.d
           /\ disk' = o.f
           /\ dbOp' = [name |-> "addBlock", arg |-> <<block.num_records>>, ret |-> o.ret]
           /\ dbGhost' = OtherCall(dbGhost)
    /\ UNCHANGED <<idxVars, drv, codec, parser, run>>

WriteBlock(block_id, block) ==
    /\ dbGhost.other < MaxOther
    /\ LET o == Database_writeBlock(db, disk, block_id, block)
       IN  /\ db' = o.d
           /\ disk' = o.f
           /\ dbOp' = [name |-> "writeBlock", arg |-> <<block_id, block.num_records>>,
                       ret |-> o.ret]
           /\ dbGhost' = OtherCall(dbGhost)
    /\ UNCHANGED <<idxVars, drv, codec, parser, run>>

ReadBlock(block_id) ==
    /\ dbGhost.other < MaxOther
    /\ LET o == Database_readBlock(db, disk, block_id)
       IN  /\ db' = o.d
           /\ disk' = o.f
           /\ dbOp' = [name |-> "readBlock", arg |-> <<block_id>>, ret |-> o.ret]
           /\ dbGhost' = OtherCall(dbGhost)
    /\ UNCHANGED <<idxVars, drv, codec, parser, run>>

GetRecord(block_id, record_index, ub) ==
    /\ dbGhost.other < MaxOther
    /\ LET o == Database_getRecord(db, disk, block_id, record_index, ub)
       IN  /\ db' = o.d
           /\ disk' = o.f
           /\ dbOp' = [name |-> "getRecord", arg |-> <<block_id, record_index>>, ret |-> o.ret]
           /\ dbGhost' = OtherCall(dbGhost)
    /\ UNCHANGED <<idxVars, drv, codec, parser, run>>

DeleteRecord(block_id, record_index) ==
    /\ dbGhost.other < MaxOther
    /\ LET o == Database_deleteRecord(db, disk, block_id, record_index)
       IN  /\ db' = o.d
           /\ disk' = o.f
           /\ dbOp' = [name |-> "deleteRecord", arg |-> <<block_id, record_index>>, ret |-> o.ret]
           /\ dbGhost' = OtherCall(dbGhost)
    /\ UNCHANGED <<idxVars, drv, codec, parser, run>>

DbResetIO ==
    /\ dbGhost.other < MaxOther
    /\ db' = Database_resetIOCounters(db)
    /\ dbOp' = [name |-> "resetIOCounters", arg |-> <<>>, ret |-> TRUE]
    /\ dbGhost' = OtherCall(dbGhost)
    /\ UNCHANGED <<disk, idxVars, drv, codec, parser, run>>

\* open, addRecord, close, a new instance, getAllRecords
HeapNext ==
    \/ DbOpen
    \/ DbClose
    \/ DbNewInstance
    \/ \E record \in Records : AddRecord(record)
    \/ GetAllRecords

\* every public method of Database, one record value
HeapAllNext ==
    \/ DbOpen
    \/ DbOpenAgain
    \/ DbClose
    \/ DbNewInstance
    \/ AddRecord(1)
    \/ GetAllRecords
    \/ \E block \in CallerBlocks : AddBlock(block)
    \/ \E block_id \in BlockIds, block \in CallerBlocks : WriteBlock(block_id, block)
    \/ \E block_id \in BlockIds : ReadBlock(block_id)
    \/ \E block_id \in BlockIds, record_index \in RecordIndexes, ub \in StackValues :
          (record_index >= 0 => ub = EmptyRecord) /\ GetRecord(block_id, record_index, ub)
    \/ \E block_id \in BlockIds, record_index \in SlotIds : DeleteRecord(block_id, record_index)

(***************************************************************************)
(* BPTreeNode (src/src/indexing/bptree.h)                                  *)
(*                                                                         *)
(* The node is one fixed-size page: is_leaf, num_keys, keys[MAX_KEYS],     *)
(* children[MAX_KEYS + 1], next_leaf, parent, laid out in this order with  *)
(* no padding between the arrays.  The code indexes keys[] and children[]  *)
(* one past their ends (and keys[-1]); with g++ and this layout such an    *)
(* access lands in the neighbouring field, and the bits are reinterpreted  *)
(* between float and int.  GetKey / SetKey / GetChild / SetChild model     *)
(* exactly that.                                                           *)
(***************************************************************************)
\* fan-out of the (scaled) tree; the program's MAX_KEYS is 101
TreeOrder == 3

MAX_KEYS == TreeOrder

\* BPTree::BPTree: order = MAX_KEYS, at least 3
Order == IF MAX_KEYS < 3 THEN 3 ELSE MAX_KEYS

\* A normal positive float is modelled by a multiple of KeyUnit; 0 is 0.0f;
\* 1..KeyUnit-1 are the denormals whose bit patterns are the ints 1..KeyUnit-1
KeyUnit == 1000000

\* the int whose bits are those of a normal float lies above FloatBase
FloatBase == 1000000000

\* reinterpret the bits of a float as an int
IntBits(x) == IF x < KeyUnit THEN x ELSE FloatBase + (x \div KeyUnit)

\* reinterpret the bits of a non-negative int as a float
FloatBits(n) == IF n < KeyUnit THEN n
                ELSE IF n >= FloatBase THEN (n - FloatBase) * KeyUnit
                ELSE KeyUnit - 1

\* BPTreeNode(): a leaf, no keys, keys 0.0f, children -1, links -1
NewNode ==
    [is_leaf |-> TRUE, num_keys |-> 0,
     keys |-> [i \in 1..MAX_KEYS |-> 0],
     children |-> [i \in 1..(MAX_KEYS + 1) |-> -1],
     next_leaf |-> -1, parent |-> -1]

\* a page of zero bytes (a hole of the file)
ZeroNode ==
    [is_leaf |-> FALSE, num_keys |-> 0,
     keys |-> [i \in 1..MAX_KEYS |-> 0],
     children |-> [i \in 1..(MAX_KEYS + 1) |-> 0],
     next_leaf |-> 0, parent |-> 0]

\* node.children[j]; j = MAX_KEYS + 1 is the storage of next_leaf
GetChild(node, j) ==
    IF j >= 0 /\ j <= MAX_KEYS THEN node.children[j + 1]
    ELSE IF j = MAX_KEYS + 1 THEN node.next_leaf
    ELSE node.parent

\* node.children[j] = v
SetChild(node, j, v) ==
    IF j >= 0 /\ j <= MAX_KEYS THEN [node EXCEPT !.children[j + 1] = v]
    ELSE IF j = MAX_KEYS + 1 THEN [node EXCEPT !.next_leaf = v]
    ELSE [node EXCEPT !.parent = v]

\* node.keys[j]; j = MAX_KEYS is the storage of children[0], j = -1 that of num_keys
GetKey(node, j) ==
    IF j >= 0 /\ j < MAX_KEYS THEN node.keys[j + 1]
    ELSE IF j = -1 THEN FloatBits(node.num_keys)
    ELSE FloatBits(GetChild(node, j - MAX_KEYS))

\* node.keys[j] = v
SetKey(node, j, v) ==
    IF j >= 0 /\ j < MAX_KEYS THEN [node EXCEPT !.keys[j + 1] = v]
    ELSE SetChild(node, j - MAX_KEYS, IntBits(v))

\* true when the C index is outside the declared array
KeyIndexOut(j) == j < 0 \/ j >= MAX_KEYS

ChildIndexOut(j) == j < 0 \/ j > MAX_KEYS

(***************************************************************************)
(* RecordPointer and its encoding in a leaf slot                           *)
(***************************************************************************)
POINTER_FACTOR == 10000

RecordPointer(block_id, record_index) ==
    [block_id |-> block_id, record_index |-> record_index]

\* an encoding with room for 100 slots of a block only
EncodePointer_off(ptr) == ptr.block_id * 100 + ptr.record_index

EncodePointer(ptr) == ptr.block_id * POINTER_FACTOR + ptr.record_index

\* int division and remainder of C++ (towards zero)
TruncDiv(a, b) == IF a >= 0 THEN a \div b ELSE -((-a) \div b)

TruncMod(a, b) == IF a >= 0 THEN a % b ELSE -((-a) % b)

DecodePointer(encoded_ptr) ==
    RecordPointer(TruncDiv(encoded_ptr, POINTER_FACTOR),
                  TruncMod(encoded_ptr, POINTER_FACTOR))

\* the largest int
INT_MAX == 2147483647

\* block_id * 10000 + record_index is computed without overflow of int
EncodeFits(ptr) ==
    /\ ptr.block_id >= 0 /\ ptr.record_index >= 0
    /\ ptr.block_id <= (INT_MAX - ptr.record_index) \div POINTER_FACTOR

\* RecordPointer::operator<
PointerLess(a, b) ==
    IF a.block_id # b.block_id THEN a.block_id < b.block_id
    ELSE a.record_index < b.record_index

\* operator< of std::pair<float, RecordPointer>
PairLess(a, b) ==
    \/ a[1] < b[1]
    \/ (a[1] = b[1] /\ PointerLess(a[2], b[2]))

\* std::sort of the pairs
RECURSIVE InsertSorted(_, _)
InsertSorted(sorted, x) ==
    IF sorted = <<>> THEN <<x>>
    ELSE IF PairLess(x, Head(sorted)) THEN <<x>> \o sorted
    ELSE <<Head(sorted)>> \o InsertSorted(Tail(sorted), x)

RECURSIVE SortPairs(_)
SortPairs(data) ==
    IF data = <<>> THEN <<>>
    ELSE InsertSorted(SortPairs(Tail(data)), Head(data))

(***************************************************************************)
(* BPTree (src/src/indexing/bptree.cpp): file access                       *)
(*                                                                         *)
(* A tree instance t = [is_open, failbit, root_id, next_node_id, crashed]  *)
(* works on the index file f = [exists, hdr_root, hdr_next, nodes,         *)
(* extent]: nodes maps the ids of the written pages to their contents and  *)
(* extent is the number of pages the file spans (pages inside the extent   *)
(* that were never written read as zero bytes).  The operators work on the *)
(* pair s = [t, f] and return it with the C++ return value.                *)
(***************************************************************************)
\* longest walk (descent or leaf chain) followed before a loop is reported as not ending
MaxWalk == 12

BPTree_new ==
    [is_open |-> FALSE, failbit |-> FALSE, root_id |-> -1, next_node_id |-> 0,
     crashed |-> FALSE,
     index_nodes_accessed |-> 0, total_index_node_ios |-> 0, unique_index_nodes |-> {}]

NoIndexFile ==
    [exists |-> FALSE, hdr_root |-> 0, hdr_next |-> 0,
     nodes |-> [i \in {} |-> ZeroNode], extent |-> 0]

\* index_nodes_accessed++; total_index_node_ios++; unique_index_nodes.insert
CountNodeIO(s, node_id) ==
    [s EXCEPT !.t.index_nodes_accessed = @ + 1,
              !.t.total_index_node_ios = @ + 1,
              !.t.unique_index_nodes = @ \cup {node_id}]

\* index_nodes_accessed = 0; total_index_node_ios = 0; unique_index_nodes.clear()
BPTree_resetIOCounters(t) ==
    [t EXCEPT !.index_nodes_accessed = 0, !.total_index_node_ios = 0,
              !.unique_index_nodes = {}]

BPTree_readNode(s, node_id, buf) ==
    IF ~s.t.is_open
    THEN [s |-> s, ret |-> FALSE, node |-> buf]
    ELSE IF s.t.failbit \/ node_id < 0 \/ node_id >= s.f.extent
    THEN [s |-> CountNodeIO([s EXCEPT !.t.failbit = TRUE], node_id), ret |-> FALSE,
          node |-> buf]
    ELSE [s |-> CountNodeIO(s, node_id), ret |-> TRUE,
          node |-> IF node_id \in DOMAIN s.f.nodes THEN s.f.nodes[node_id]
                   ELSE ZeroNode]

BPTree_writeNode(s, node_id, node) ==
    IF ~s.t.is_open
    THEN [s |-> s, ret |-> FALSE]
    ELSE IF s.t.failbit \/ node_id < 0
    THEN [s |-> CountNodeIO([s EXCEPT !.t.failbit = TRUE], node_id), ret |-> FALSE]
    ELSE [s |-> CountNodeIO([s EXCEPT
                   !.f.nodes = [i \in (DOMAIN s.f.nodes) \cup {node_id} |->
                                   IF i = node_id THEN node ELSE s.f.nodes[i]],
                   !.f.extent = Max(s.f.extent, node_id + 1)], node_id),
          ret |-> TRUE]

BPTree_createNode(s, node) ==
    IF ~s.t.is_open THEN [s |-> s, ret |-> -1]
    ELSE LET node_id == s.t.next_node_id
             w == BPTree_writeNode([s EXCEPT !.t.next_node_id = node_id + 1],
                                   node_id, node)
         IN  [s |-> w.s, ret |-> IF w.ret THEN node_id ELSE -1]

BPTree_writeMetadata(s) ==
    IF ~s.t.is_open \/ s.t.failbit THEN s
    ELSE [s EXCEPT !.f.hdr_root = s.t.root_id, !.f.hdr_next = s.t.next_node_id]

BPTree_readMetadata(s) ==
    IF ~s.t.is_open \/ s.t.failbit THEN s
    ELSE [s EXCEPT !.t.root_id = s.f.hdr_root, !.t.next_node_id = s.f.hdr_next]

BPTree_open(s) ==
    IF s.t.is_open
    THEN \* open() of an open stream fails and leaves it open
         [s |-> BPTree_readMetadata([s EXCEPT !.t.failbit = TRUE]), ret |-> TRUE]
    ELSE IF s.f.exists
    THEN [s |-> BPTree_readMetadata([s EXCEPT !.t.is_open = TRUE,
                                               !.t.failbit = FALSE]),
          ret |-> TRUE]
    ELSE LET created == [s EXCEPT !.t.is_open = TRUE, !.t.failbit = FALSE,
                                  !.f.exists = TRUE]
             c == BPTree_createNode(created, NewNode)
         IN  [s |-> BPTree_writeMetadata([c.s EXCEPT !.t.root_id = c.ret]),
              ret |-> TRUE]

BPTree_close(s) ==
    IF s.t.is_open
    THEN [BPTree_writeMetadata(s) EXCEPT !.t.is_open = FALSE]
    ELSE s

(***************************************************************************)
(* BPTree: descent and insertion                                           *)
(***************************************************************************)
RECURSIVE FindChildIndex(_, _, _)
\* while (i < node.num_keys && key >= node.keys[i]) i++
FindChildIndex(node, key, i) ==
    IF i < node.num_keys /\ key >= GetKey(node, i)
    THEN FindChildIndex(node, key, i + 1)
    ELSE i

RECURSIVE FindLeafLoop(_, _, _, _, _)
FindLeafLoop(s, current, buf, key, fuel) ==
    LET r1 == BPTree_readNode(s, current, buf)
    IN  IF r1.ret /\ r1.node.is_leaf
        THEN [s |-> r1.s, ret |-> current, hang |-> FALSE]
        ELSE LET r2 == BPTree_readNode(r1.s, current, r1.node)
             IN  IF ~r2.ret THEN [s |-> r2.s, ret |-> -1, hang |-> FALSE]
                 ELSE IF fuel = 0 THEN [s |-> r2.s, ret |-> -1, hang |-> TRUE]
                 ELSE FindLeafLoop(r2.s,
                                   GetChild(r2.node, FindChildIndex(r2.node, key, 0)),
                                   r2.node, key, fuel - 1)

BPTree_findLeaf(s, key) ==
    IF s.t.root_id = -1 THEN [s |-> s, ret |-> -1, hang |-> FALSE]
    ELSE FindLeafLoop(s, s.t.root_id, NewNode, key, MaxWalk)

RECURSIVE LeafInsertPos(_, _, _)
\* while (i < leaf.num_keys && leaf.keys[i] < key) i++
LeafInsertPos(leaf, key, i) ==
    IF i < leaf.num_keys /\ GetKey(leaf, i) < key
    THEN LeafInsertPos(leaf, key, i + 1)
    ELSE i

\* The two results an optimising build gives the shifting loop when it runs
\* over the end of keys[]: statement by statement, or one array after the other
ShiftOrders == {"interleaved", "children_first"}

RECURSIVE ShiftKeysRight(_, _, _)
\* for (j = n; j > i; j--) keys[j] = keys[j-1]
ShiftKeysRight(node, j, i) ==
    IF j <= i THEN node
    ELSE ShiftKeysRight(SetKey(node, j, GetKey(node, j - 1)), j - 1, i)

RECURSIVE ShiftChildrenRight(_, _, _, _)
\* for (j = n; j > i; j--) children[j + d] = children[j + d - 1]
ShiftChildrenRight(node, j, i, d) ==
    IF j <= i THEN node
    ELSE ShiftChildrenRight(SetChild(node, j + d, GetChild(node, j + d - 1)),
                            j - 1, i, d)

RECURSIVE ShiftBothRight(_, _, _, _)
\* for (j = n; j > i; j--) { keys[j] = keys[j-1]; children[j+d] = children[j+d-1]; }
ShiftBothRight(node, j, i, d) ==
    IF j <= i THEN node
    ELSE LET k == SetKey(node, j, GetKey(node, j - 1))
         IN  ShiftBothRight(SetChild(k, j + d, GetChild(k, j + d - 1)), j - 1, i, d)

ShiftRight(node, n, i, d, ub) ==
    IF ub = "children_first" /\ KeyIndexOut(n) /\ n > i
    THEN ShiftKeysRight(ShiftChildrenRight(node, n, i, d), n, i)
    ELSE ShiftBothRight(node, n, i, d)

BPTree_insertIntoLeaf(s, leaf_id, key, ptr, ub) ==
    LET r == BPTree_readNode(s, leaf_id, NewNode)
    IN  IF ~r.ret THEN r.s
        ELSE LET leaf == r.node
                 i == LeafInsertPos(leaf, key, 0)
                 shifted == ShiftRight(leaf, leaf.num_keys, i, 0, ub)
                 withKey == SetKey(shifted, i, key)
                 withPtr == SetChild(withKey, i, EncodePointer(ptr))
             IN  BPTree_writeNode(r.s, leaf_id,
                                  [withPtr EXCEPT !.num_keys = @ + 1]).s

RECURSIVE CopyUpper(_, _, _, _)
\* for (i = from; i < node.num_keys; i++) { dst.keys[n] = node.keys[i];
\*                                          dst.children[n] = node.children[i]; n++ }
CopyUpper(node, dst, i, limit) ==
    IF i >= limit THEN dst
    ELSE LET k == SetKey(dst, dst.num_keys, GetKey(node, i))
             c == SetChild(k, dst.num_keys, GetChild(node, i))
         IN  CopyUpper(node, [c EXCEPT !.num_keys = @ + 1], i + 1, limit)

RECURSIVE ParentChildPos(_, _, _)
\* while (i < parent.num_keys && parent.children[i] != left_id) i++
ParentChildPos(parent, left_id, i) ==
    IF i < parent.num_keys /\ GetChild(parent, i) # left_id
    THEN ParentChildPos(parent, left_id, i + 1)
    ELSE i

RECURSIVE BPTree_insertIntoParent(_, _, _, _, _)
RECURSIVE BPTree_splitInternal(_, _, _)

BPTree_insertIntoParent(s, left_id, key, right_id, ub) ==
    IF s.t.root_id = left_id
    THEN LET new_root == [NewNode EXCEPT !.is_leaf = FALSE, !.keys[1] = key,
                                         !.children[1] = left_id,
                                         !.children[2] = right_id,
                                         !.num_keys = 1]
             c  == BPTree_createNode(s, new_root)
             s1 == [c.s EXCEPT !.t.root_id = c.ret]
             rl == BPTree_readNode(s1, left_id, NewNode)
             rr == BPTree_readNode(rl.s, right_id, NewNode)
             wl == BPTree_writeNode(rr.s, left_id,
                                    [rl.node EXCEPT !.parent = s1.t.root_id])
         IN  BPTree_writeNode(wl.s, right_id,
                              [rr.node EXCEPT !.parent = s1.t.root_id]).s
    ELSE LET r1 == BPTree_readNode(s, left_id, NewNode)
             parent_id == r1.node.parent
             r2 == BPTree_readNode(r1.s, parent_id, r1.node)
             parent == r2.node
             i == ParentChildPos(parent, left_id, 0)
             shifted == ShiftRight(parent, parent.num_keys, i, 1, ub)
             withKey == SetKey(shifted, i, key)
             withChild == SetChild(withKey, i + 1, right_id)
             grown == [withChild EXCEPT !.num_keys = @ + 1]
             w == BPTree_writeNode(r2.s, parent_id, grown)
         IN  IF grown.num_keys > Order
             THEN BPTree_splitInternal(w.s, parent_id, ub)
             ELSE w.s

BPTree_splitInternal(s, node_id, ub) ==
    LET r == BPTree_readNode(s, node_id, NewNode)
    IN  IF ~r.ret THEN r.s
        ELSE LET node == r.node
                 new_node == [NewNode EXCEPT !.is_leaf = FALSE,
                                             !.parent = node.parent]
                 c == BPTree_createNode(r.s, new_node)
                 mid == node.num_keys \div 2
                 promote_key == GetKey(node, mid)
                 copied == CopyUpper(node, new_node, mid + 1, node.num_keys)
                 filled == SetChild(copied, copied.num_keys,
                                    GetChild(node, node.num_keys))
                 w1 == BPTree_writeNode(c.s, node_id, [node EXCEPT !.num_keys = mid])
                 w2 == BPTree_writeNode(w1.s, c.ret, filled)
             IN  BPTree_insertIntoParent(w2.s, node_id, promote_key, c.ret, ub)

BPTree_splitLeaf(s, leaf_id, ub) ==
    LET r == BPTree_readNode(s, leaf_id, NewNode)
    IN  IF ~r.ret THEN r.s
        ELSE LET leaf == r.node
                 new_leaf == [NewNode EXCEPT !.is_leaf = TRUE,
                                             !.next_leaf = leaf.next_leaf,
                                             !.parent = leaf.parent]
                 c == BPTree_createNode(r.s, new_leaf)
                 mid == leaf.num_keys \div 2
                 filled == CopyUpper(leaf, new_leaf, mid, leaf.num_keys)
                 w1 == BPTree_writeNode(c.s, leaf_id,
                                        [leaf EXCEPT !.next_leaf = c.ret,
                                                     !.num_keys = mid])
                 w2 == BPTree_writeNode(w1.s, c.ret, filled)
             IN  BPTree_insertIntoParent(w2.s, leaf_id, GetKey(filled, 0), c.ret, ub)

BPTree_insert(s, key, ptr, ub) ==
    IF s.t.root_id = -1
    THEN LET root == [NewNode EXCEPT !.is_leaf = TRUE, !.keys[1] = key,
                                     !.children[1] = EncodePointer(ptr),
                                     !.num_keys = 1]
             c == BPTree_createNode(s, root)
         IN  [s |-> [c.s EXCEPT !.t.root_id = c.ret], ret |-> TRUE, hang |-> FALSE]
    ELSE LET fl == BPTree_findLeaf(s, key)
         IN  IF fl.ret = -1 THEN [s |-> fl.s, ret |-> FALSE, hang |-> fl.hang]
             ELSE LET r == BPTree_readNode(fl.s, fl.ret, NewNode)
                  IN  IF ~r.ret THEN [s |-> r.s, ret |-> FALSE, hang |-> FALSE]
                      ELSE LET ins == BPTree_insertIntoLeaf(r.s, fl.ret, key, ptr, ub)
                           IN  [s |-> IF r.node.num_keys < Order THEN ins
                                      ELSE BPTree_splitLeaf(ins, fl.ret, ub),
                                ret |-> TRUE, hang |-> FALSE]

(***************************************************************************)
(* BPTree: queries                                                         *)
(***************************************************************************)
RECURSIVE LeafMatches(_, _, _, _)
\* the pointers of the slots i.. of the leaf whose key lies in [min_key, max_key]
LeafMatches(leaf, i, min_key, max_key) ==
    IF i >= leaf.num_keys THEN <<>>
    ELSE (IF GetKey(leaf, i) >= min_key /\ GetKey(leaf, i) <= max_key
          THEN <<DecodePointer(GetChild(leaf, i))>> ELSE <<>>)
         \o LeafMatches(leaf, i + 1, min_key, max_key)

BPTree_search(s, key) ==
    LET fl == BPTree_findLeaf(s, key)
    IN  IF fl.ret = -1 THEN [s |-> fl.s, ret |-> <<>>, hang |-> fl.hang]
        ELSE LET r == BPTree_readNode(fl.s, fl.ret, NewNode)
             IN  IF ~r.ret THEN [s |-> r.s, ret |-> <<>>, hang |-> FALSE]
                 ELSE [s |-> r.s, ret |-> LeafMatches(r.node, 0, key, key),
                       hang |-> FALSE]

RECURSIVE RangeSearchLoop(_, _, _, _, _, _, _)
RangeSearchLoop(s, leaf_id, buf, min_key, max_key, results, fuel) ==
    IF leaf_id = -1 THEN [s |-> s, ret |-> results, hang |-> FALSE]
    ELSE LET r == BPTree_readNode(s, leaf_id, buf)
         IN  IF ~r.ret THEN [s |-> r.s, ret |-> results, hang |-> FALSE]
             ELSE LET leaf == r.node
                      found == results \o LeafMatches(leaf, 0, min_key, max_key)
                  IN  IF GetKey(leaf, leaf.num_keys - 1) > max_key
                      THEN [s |-> r.s, ret |-> found, hang |-> FALSE]
                      ELSE IF fuel = 0
                      THEN [s |-> r.s, ret |-> found, hang |-> TRUE]
                      ELSE RangeSearchLoop(r.s, leaf.next_leaf, leaf, min_key,
                                           max_key, found, fuel - 1)

BPTree_rangeSearch(s, min_key, max_key) ==
    LET fl == BPTree_findLeaf(s, min_key)
    IN  IF fl.ret = -1 THEN [s |-> fl.s, ret |-> <<>>, hang |-> fl.hang]
        ELSE RangeSearchLoop(fl.s, fl.ret, NewNode, min_key, max_key, <<>>, MaxWalk)

RECURSIVE NumLevelsLoop(_, _, _, _, _)
NumLevelsLoop(s, current, buf, levels, fuel) ==
    LET r == BPTree_readNode(s, current, buf)
    IN  IF r.ret /\ ~r.node.is_leaf
        THEN IF fuel = 0 THEN [s |-> r.s, ret |-> levels, hang |-> TRUE]
             ELSE NumLevelsLoop(r.s, GetChild(r.node, 0), r.node, levels + 1,
                                fuel - 1)
        ELSE [s |-> r.s, ret |-> levels, hang |-> FALSE]

\* a getNumLevels that does not count the level of the root
BPTree_getNumLevels_off(s) ==
    IF s.t.root_id = -1 THEN [s |-> s, ret |-> 0, hang |-> FALSE]
    ELSE NumLevelsLoop(s, s.t.root_id, NewNode, 0, MaxWalk)

BPTree_getNumLevels(s) ==
    IF s.t.root_id = -1 THEN [s |-> s, ret |-> 0, hang |-> FALSE]
    ELSE NumLevelsLoop(s, s.t.root_id, NewNode, 1, MaxWalk)

(***************************************************************************)
(* BPTree: bulk load                                                       *)
(***************************************************************************)
RECURSIVE BulkLeaves(_, _, _, _, _, _)
\* the loop that fills the leaves; sorted_data[i + 1] is the pair of index i
BulkLeaves(s, sorted_data, i, current_leaf, leaf, leaf_nodes) ==
    IF i >= Len(sorted_data)
    THEN IF current_leaf # -1
         THEN [s |-> BPTree_writeNode(s, current_leaf, leaf).s,
               leaf_nodes |-> Append(leaf_nodes, current_leaf)]
         ELSE [s |-> s, leaf_nodes |-> leaf_nodes]
    ELSE LET starts == (i % Order = 0)
             saved == IF starts /\ current_leaf # -1
                      THEN BPTree_writeNode(s, current_leaf, leaf).s ELSE s
             nodes == IF starts /\ current_leaf # -1
                      THEN Append(leaf_nodes, current_leaf) ELSE leaf_nodes
             c == BPTree_createNode(saved, NewNode)
             s1 == IF starts THEN c.s ELSE s
             cur == IF starts THEN c.ret ELSE current_leaf
             base == IF starts THEN NewNode ELSE leaf
             k == SetKey(base, base.num_keys, sorted_data[i + 1][1])
             p == SetChild(k, base.num_keys, EncodePointer(sorted_data[i + 1][2]))
         IN  BulkLeaves(s1, sorted_data, i + 1, cur,
                        [p EXCEPT !.num_keys = @ + 1], nodes)

RECURSIVE BulkLink(_, _, _)
\* for (i = 0; i < leaf_nodes.size() - 1; i++): chain leaf i to leaf i + 1
BulkLink(s, leaf_nodes, i) ==
    IF i >= Len(leaf_nodes) - 1 THEN s
    ELSE LET r == BPTree_readNode(s, leaf_nodes[i + 1], NewNode)
             w == BPTree_writeNode(r.s, leaf_nodes[i + 1],
                                   [r.node EXCEPT !.next_leaf = leaf_nodes[i + 2]])
         IN  BulkLink(w.s, leaf_nodes, i + 1)

RECURSIVE BulkInternal(_, _, _, _, _)
\* one internal node over nodes[i .. end - 1]: the loop over j
BulkInternal(s, nodes, j, i, internal) ==
    LET end == Min(i + Order, Len(nodes))
    IN  IF j >= end THEN [s |-> s, internal |-> internal]
        ELSE LET withChild == SetChild(internal, j - i, nodes[j + 1])
             IN  IF j < end - 1
                 THEN LET r == BPTree_readNode(s, nodes[j + 2], NewNode)
                          k == SetKey(withChild, withChild.num_keys,
                                      GetKey(r.node, 0))
                      IN  BulkInternal(r.s, nodes, j + 1, i,
                                       [k EXCEPT !.num_keys = @ + 1])
                 ELSE BulkInternal(s, nodes, j + 1, i, withChild)

RECURSIVE BulkLevel(_, _, _, _)
\* for (i = 0; i < nodes.size(); i += order): one level of internal nodes
BulkLevel(s, nodes, i, internal_nodes) ==
    IF i >= Len(nodes) THEN [s |-> s, nodes |-> internal_nodes]
    ELSE LET b == BulkInternal(s, nodes, i, i, [NewNode EXCEPT !.is_leaf = FALSE])
             c == BPTree_createNode(b.s, b.internal)
         IN  BulkLevel(c.s, nodes, i + Order, Append(internal_nodes, c.ret))

RECURSIVE BulkLevels(_, _)
\* while (leaf_nodes.size() > 1)
BulkLevels(s, nodes) ==
    IF Len(nodes) <= 1 THEN [s |-> s, nodes |-> nodes]
    ELSE LET l == BulkLevel(s, nodes, 0, <<>>)
         IN  BulkLevels(l.s, l.nodes)

\* a bulkLoad that clears the tree before it looks at the input
BPTree_bulkLoad_off(s, data) ==
    IF data = <<>>
    THEN [s |-> [s EXCEPT !.t.root_id = -1, !.t.next_node_id = 0], ret |-> FALSE]
    ELSE [s |-> s, ret |-> FALSE]

BPTree_bulkLoad(s, data) ==
    IF data = <<>> THEN [s |-> s, ret |-> FALSE]
    ELSE LET leaves == BulkLeaves(s, SortPairs(data), 0, -1, NewNode, <<>>)
         IN  IF leaves.leaf_nodes = <<>>
             THEN \* leaf_nodes.size() - 1 wraps and leaf_nodes[0] is read from
                  \* an empty vector: the process is killed
                  [s |-> [leaves.s EXCEPT !.t.crashed = TRUE], ret |-> FALSE]
             ELSE LET linked == BulkLink(leaves.s, leaves.leaf_nodes, 0)
                      top == BulkLevels(linked, leaves.leaf_nodes)
                  IN  [s |-> [top.s EXCEPT !.t.root_id = top.nodes[1]],
                       ret |-> TRUE]

(***************************************************************************)
(* BPTree: deletion.  The repository holds two implementations of the      *)
(* class: bptree.cpp (the one the Makefile compiles, "cpp") and the one    *)
(* appended to bptree.h ("h").  They differ in handleUnderflow and in      *)
(* removeRange; Implementations names the two builds.                      *)
(***************************************************************************)
Implementations == {"cpp", "h"}

RECURSIVE FirstKeyIndex(_, _, _)
\* the first slot i.. of the leaf that holds the key, or -1
FirstKeyIndex(leaf, key, i) ==
    IF i >= leaf.num_keys THEN -1
    ELSE IF GetKey(leaf, i) = key THEN i
    ELSE FirstKeyIndex(leaf, key, i + 1)

RECURSIVE ShiftLeft(_, _, _, _)
\* for (; i < limit; i++) { keys[i] = keys[i+1]; children[i+d] = children[i+d+1]; }
ShiftLeft(node, i, limit, d) ==
    IF i >= limit THEN node
    ELSE LET k == SetKey(node, i, GetKey(node, i + 1))
         IN  ShiftLeft(SetChild(k, i + d, GetChild(k, i + d + 1)), i + 1, limit, d)

BPTree_removeFromLeaf(s, leaf_id, key) ==
    LET r == BPTree_readNode(s, leaf_id, NewNode)
    IN  IF ~r.ret THEN r.s
        ELSE LET leaf == r.node
                 key_index == FirstKeyIndex(leaf, key, 0)
             IN  IF key_index = -1 THEN r.s
                 ELSE BPTree_writeNode(r.s, leaf_id,
                         [ShiftLeft(leaf, key_index, leaf.num_keys - 1, 0)
                            EXCEPT !.num_keys = @ - 1]).s

BPTree_deleteNode(s, node_id) ==
    BPTree_writeNode(s, node_id, [NewNode EXCEPT !.is_leaf = FALSE]).s

\* the root without keys is replaced by its only child
CollapseRoot(s, node_id, child_id, delete) ==
    Bind(BPTree_readNode([s EXCEPT !.t.root_id = child_id], child_id, NewNode),
         LAMBDA nr :
    Bind(BPTree_writeNode(nr.s, child_id, [nr.node EXCEPT !.parent = -1]).s,
         LAMBDA w :
    IF delete THEN BPTree_deleteNode(w, node_id) ELSE w))

\* bptree.cpp: only a root without keys is replaced by its child
BPTree_handleUnderflow_cpp(s, node_id) ==
    Bind(BPTree_readNode(s, node_id, NewNode), LAMBDA r :
    IF ~r.ret THEN r.s
    ELSE IF r.node.parent = -1 /\ r.node.num_keys = 0 /\ ~r.node.is_leaf
            /\ GetChild(r.node, 0) # -1
    THEN CollapseRoot(r.s, node_id, GetChild(r.node, 0), FALSE)
    ELSE r.s)

\* the three reads that open borrowFromLeft/Right and mergeWithLeft/Right
ReadThree(s, node_id, sibling_id, parent_id) ==
    Bind(BPTree_readNode(s, node_id, NewNode), LAMBDA rn :
    IF ~rn.ret THEN [s |-> rn.s, ret |-> FALSE, node |-> rn.node,
                     sibling |-> NewNode, parent |-> NewNode]
    ELSE Bind(BPTree_readNode(rn.s, sibling_id, NewNode), LAMBDA rs :
    IF ~rs.ret THEN [s |-> rs.s, ret |-> FALSE, node |-> rn.node,
                     sibling |-> rs.node, parent |-> NewNode]
    ELSE Bind(BPTree_readNode(rs.s, parent_id, NewNode), LAMBDA rp :
    [s |-> rp.s, ret |-> rp.ret, node |-> rn.node,
     sibling |-> rs.node, parent |-> rp.node])))

\* the three writes that close borrowFromLeft/Right
WriteThree(s, node_id, node, sibling_id, sibling, parent_id, parent) ==
    BPTree_writeNode(
        BPTree_writeNode(BPTree_writeNode(s, node_id, node).s,
                         sibling_id, sibling).s,
        parent_id, parent).s

\* borrowFromLeft on the three nodes read
BorrowLeftNodes(node, sibling, parent, key_index) ==
    LET last == sibling.num_keys - 1
        LeafNode(sh) ==
            [SetChild(SetKey(sh, 0, GetKey(sibling, last)), 0,
                      GetChild(sibling, last)) EXCEPT !.num_keys = @ + 1]
        InnerNode(sh) ==
            [SetChild(SetKey(SetChild(sh, 1, GetChild(sh, 0)), 0,
                             GetKey(parent, key_index)),
                      0, GetChild(sibling, sibling.num_keys))
               EXCEPT !.num_keys = @ + 1]
        Result(n) ==
            [node |-> n,
             sibling |-> [sibling EXCEPT !.num_keys = @ - 1],
             parent |-> IF node.is_leaf
                        THEN SetKey(parent, key_index, GetKey(n, 0))
                        ELSE SetKey(parent, key_index, GetKey(sibling, last))]
    IN  IF node.is_leaf
        THEN Result(LeafNode(ShiftBothRight(node, node.num_keys, 0, 0)))
        ELSE Result(InnerNode(ShiftBothRight(node, node.num_keys, 0, 1)))

BPTree_borrowFromLeft(s, node_id, sibling_id, parent_id, key_index) ==
    Bind(ReadThree(s, node_id, sibling_id, parent_id), LAMBDA r :
    IF ~r.ret THEN r.s
    ELSE Bind(BorrowLeftNodes(r.node, r.sibling, r.parent, key_index), LAMBDA b :
         WriteThree(r.s, node_id, b.node, sibling_id, b.sibling, parent_id,
                    b.parent)))

\* borrowFromRight on the three nodes read
BorrowRightNodes(node, sibling, parent, key_index) ==
    LET n == node.num_keys
        m == sibling.num_keys
        LeafSibling(shifted) == [shifted EXCEPT !.num_keys = @ - 1]
        InnerSibling(shifted) ==
            [SetChild(shifted, m - 1, GetChild(shifted, m)) EXCEPT !.num_keys = @ - 1]
        LeafResult(sib) ==
            [node |-> [SetChild(SetKey(node, n, GetKey(sibling, 0)), n,
                                GetChild(sibling, 0)) EXCEPT !.num_keys = @ + 1],
             sibling |-> sib,
             parent |-> SetKey(parent, key_index, GetKey(sib, 0))]
        InnerResult(sib) ==
            [node |-> [SetChild(SetKey(node, n, GetKey(parent, key_index)), n + 1,
                                GetChild(sibling, 0)) EXCEPT !.num_keys = @ + 1],
             sibling |-> sib,
             parent |-> SetKey(parent, key_index, GetKey(sibling, 0))]
    IN  IF node.is_leaf
        THEN LeafResult(LeafSibling(ShiftLeft(sibling, 0, m - 1, 0)))
        ELSE InnerResult(InnerSibling(ShiftLeft(sibling, 0, m - 1, 0)))

BPTree_borrowFromRight(s, node_id, sibling_id, parent_id, key_index) ==
    Bind(ReadThree(s, node_id, sibling_id, parent_id), LAMBDA r :
    IF ~r.ret THEN r.s
    ELSE Bind(BorrowRightNodes(r.node, r.sibling, r.parent, key_index), LAMBDA b :
         WriteThree(r.s, node_id, b.node, sibling_id, b.sibling, parent_id,
                    b.parent)))

RECURSIVE AppendSlots(_, _, _, _)
\* for (i = 0; i < src.num_keys; i++) { dst.keys[base + i] = src.keys[i];
\*                                      dst.children[base + i] = src.children[i]; }
AppendSlots(dst, src, base, i) ==
    IF i >= src.num_keys THEN dst
    ELSE AppendSlots(SetChild(SetKey(dst, base + i, GetKey(src, i)), base + i,
                              GetChild(src, i)),
                     src, base, i + 1)

\* into is the node that survives the merge, from the one that is emptied
MergeNodes(is_leaf, into, from, parent, key_index) ==
    IF is_leaf
    THEN [AppendSlots(into, from, into.num_keys, 0)
            EXCEPT !.num_keys = into.num_keys + from.num_keys,
                   !.next_leaf = from.next_leaf]
    ELSE [SetChild(AppendSlots(SetKey(into, into.num_keys, GetKey(parent, key_index)),
                               from, into.num_keys + 1, 0),
                   into.num_keys + 1 + from.num_keys,
                   GetChild(from, from.num_keys))
            EXCEPT !.num_keys = into.num_keys + 1 + from.num_keys]

\* the parent after the separator key_index and the child right of it are removed
RemoveSeparator(parent, key_index) ==
    [ShiftLeft(parent, key_index, parent.num_keys - 1, 1) EXCEPT !.num_keys = @ - 1]

\* minimum number of keys of bptree.h's handleUnderflow
MinKeys == ((Order + 1) \div 2) - 1

RECURSIVE PositionInParent(_, _, _)
\* the first i <= parent.num_keys with parent.children[i] == node_id, or -1
PositionInParent(parent, node_id, i) ==
    IF i > parent.num_keys THEN -1
    ELSE IF GetChild(parent, i) = node_id THEN i
    ELSE PositionInParent(parent, node_id, i + 1)

RECURSIVE BPTree_handleUnderflow_h(_, _)
RECURSIVE BPTree_mergeWithLeft(_, _, _, _, _)
RECURSIVE BPTree_mergeWithRight(_, _, _, _, _)

\* the two writes, the deleteNode and the check of the parent that close a merge
FinishMerge(s, kept_id, kept, parent_id, parent, deleted_id) ==
    Bind(BPTree_deleteNode(
            BPTree_writeNode(BPTree_writeNode(s, kept_id, kept).s,
                             parent_id, parent).s,
            deleted_id), LAMBDA d :
    IF parent.num_keys < MinKeys /\ parent_id # d.t.root_id
    THEN BPTree_handleUnderflow_h(d, parent_id)
    ELSE d)

BPTree_mergeWithLeft(s, node_id, sibling_id, parent_id, key_index) ==
    Bind(ReadThree(s, node_id, sibling_id, parent_id), LAMBDA r :
    IF ~r.ret THEN r.s
    ELSE FinishMerge(r.s, sibling_id,
                     MergeNodes(r.node.is_leaf, r.sibling, r.node, r.parent,
                                key_index),
                     parent_id, RemoveSeparator(r.parent, key_index), node_id))

BPTree_mergeWithRight(s, node_id, sibling_id, parent_id, key_index) ==
    Bind(ReadThree(s, node_id, sibling_id, parent_id), LAMBDA r :
    IF ~r.ret THEN r.s
    ELSE FinishMerge(r.s, node_id,
                     MergeNodes(r.node.is_leaf, r.node, r.sibling, r.parent,
                                key_index),
                     parent_id, RemoveSeparator(r.parent, key_index), sibling_id))

\* the read of the sibling at children[i] of the parent, when there is one
ReadSibling(s, parent, exists, i) ==
    IF exists THEN BPTree_readNode(s, GetChild(parent, i), NewNode)
    ELSE [s |-> s, ret |-> FALSE, node |-> NewNode]

\* handleUnderflow of a node that is not the root, once its parent is read
UnderflowInParent(s, node_id, parent_id, parent) ==
    Bind(PositionInParent(parent, node_id, 0), LAMBDA node_index :
    IF node_index = -1 THEN s
    ELSE Bind(ReadSibling(s, parent, node_index > 0, node_index - 1), LAMBDA rl :
    IF rl.ret /\ rl.node.num_keys > MinKeys
    THEN BPTree_borrowFromLeft(rl.s, node_id, GetChild(parent, node_index - 1),
                               parent_id, node_index - 1)
    ELSE Bind(ReadSibling(rl.s, parent, node_index < parent.num_keys,
                          node_index + 1), LAMBDA rr :
    IF rr.ret /\ rr.node.num_keys > MinKeys
    THEN BPTree_borrowFromRight(rr.s, node_id, GetChild(parent, node_index + 1),
                                parent_id, node_index)
    ELSE IF node_index > 0
    THEN BPTree_mergeWithLeft(rr.s, node_id, GetChild(parent, node_index - 1),
                              parent_id, node_index - 1)
    ELSE IF node_index < parent.num_keys
    THEN BPTree_mergeWithRight(rr.s, node_id, GetChild(parent, node_index + 1),
                               parent_id, node_index)
    ELSE rr.s)))

\* bptree.h: borrow from a sibling or merge with it
BPTree_handleUnderflow_h(s, node_id) ==
    Bind(BPTree_readNode(s, node_id, NewNode), LAMBDA r :
    IF ~r.ret \/ r.node.num_keys >= MinKeys THEN r.s
    ELSE IF r.node.parent = -1
    THEN IF r.node.num_keys = 0 /\ ~r.node.is_leaf /\ GetChild(r.node, 0) # -1
         THEN CollapseRoot(r.s, node_id, GetChild(r.node, 0), TRUE)
         ELSE r.s
    ELSE Bind(BPTree_readNode(r.s, r.node.parent, NewNode), LAMBDA rp :
         IF ~rp.ret THEN rp.s
         ELSE UnderflowInParent(rp.s, node_id, r.node.parent, rp.node)))

BPTree_handleUnderflow(s, node_id, impl) ==
    IF impl = "h" THEN BPTree_handleUnderflow_h(s, node_id)
    ELSE BPTree_handleUnderflow_cpp(s, node_id)

BPTree_remove(s, key, impl) ==
    IF s.t.root_id = -1 THEN [s |-> s, ret |-> FALSE, hang |-> FALSE]
    ELSE Bind(BPTree_findLeaf(s, key), LAMBDA fl :
         IF fl.ret = -1 THEN [s |-> fl.s, ret |-> FALSE, hang |-> fl.hang]
         ELSE Bind(BPTree_readNode(fl.s, fl.ret, NewNode), LAMBDA r :
         IF ~r.ret \/ FirstKeyIndex(r.node, key, 0) = -1
         THEN [s |-> r.s, ret |-> FALSE, hang |-> FALSE]
         ELSE Bind(BPTree_readNode(BPTree_removeFromLeaf(r.s, fl.ret, key),
                                   fl.ret, NewNode), LAMBDA u :
         [s |-> IF u.node.parent # -1 /\ u.node.num_keys < (Order + 1) \div 2
                THEN BPTree_handleUnderflow(u.s, fl.ret, impl)
                ELSE u.s,
          ret |-> TRUE, hang |-> FALSE])))

RECURSIVE ScanSlots(_, _, _, _, _)
\* bptree.cpp removeRange: the loop over the slots of one leaf, looking for ptr
ScanSlots(s, leaf, i, ptr, impl) ==
    IF i >= leaf.num_keys THEN [s |-> s, found |-> FALSE]
    ELSE IF DecodePointer(GetChild(leaf, i)) # ptr
    THEN ScanSlots(s, leaf, i + 1, ptr, impl)
    ELSE Bind(BPTree_remove(s, GetKey(leaf, i), impl), LAMBDA rm :
         IF rm.ret THEN [s |-> rm.s, found |-> TRUE]
         ELSE ScanSlots(rm.s, leaf, i + 1, ptr, impl))

RECURSIVE ScanLeaves(_, _, _, _, _)
\* bptree.cpp removeRange: while (current_leaf != -1 && !found)
ScanLeaves(s, current_leaf, ptr, impl, fuel) ==
    IF current_leaf = -1 THEN [s |-> s, found |-> FALSE, hang |-> FALSE]
    ELSE Bind(BPTree_readNode(s, current_leaf, NewNode), LAMBDA r :
    IF ~r.ret THEN [s |-> r.s, found |-> FALSE, hang |-> FALSE]
    ELSE Bind(ScanSlots(r.s, r.node, 0, ptr, impl), LAMBDA sc :
    IF sc.found THEN [s |-> sc.s, found |-> TRUE, hang |-> FALSE]
    ELSE IF fuel = 0 THEN [s |-> sc.s, found |-> FALSE, hang |-> TRUE]
    ELSE ScanLeaves(sc.s, r.node.next_leaf, ptr, impl, fuel - 1)))

RECURSIVE RemoveEach(_, _, _, _, _, _, _)
\* bptree.cpp removeRange: for (ptr : records_to_remove)
RemoveEach(s, records_to_remove, i, removed_count, hang, min_key, impl) ==
    IF i > Len(records_to_remove)
    THEN [s |-> s, ret |-> removed_count, hang |-> hang]
    ELSE Bind(BPTree_findLeaf(s, min_key), LAMBDA fl :
    Bind(ScanLeaves(fl.s, fl.ret, records_to_remove[i], impl, MaxWalk), LAMBDA sl :
    RemoveEach(sl.s, records_to_remove, i + 1,
               IF sl.found THEN removed_count + 1 ELSE removed_count,
               hang \/ fl.hang \/ sl.hang, min_key, impl)))

BPTree_removeRange_cpp(s, min_key, max_key) ==
    Bind(BPTree_rangeSearch(s, min_key, max_key), LAMBDA rs :
    RemoveEach(rs.s, rs.ret, 1, 0, rs.hang, min_key, "cpp"))

\* next_node_id that bptree.h's removeRange sets after the rebuild
REBUILT_NODE_COUNT == 251

RECURSIVE LeafSurvivors(_, _, _, _)
\* the pairs of the slots i.. of the leaf whose key is outside [min_key, max_key]
LeafSurvivors(leaf, i, min_key, max_key) ==
    IF i >= leaf.num_keys THEN <<>>
    ELSE (IF GetKey(leaf, i) < min_key \/ GetKey(leaf, i) > max_key
          THEN << <<GetKey(leaf, i), DecodePointer(GetChild(leaf, i))>> >>
          ELSE <<>>)
         \o LeafSurvivors(leaf, i + 1, min_key, max_key)

RECURSIVE CollectRemaining(_, _, _, _, _, _)
\* bptree.h removeRange: the walk over the leaf chain that collects the survivors
CollectRemaining(s, current_leaf, remaining_data, min_key, max_key, fuel) ==
    IF current_leaf = -1
    THEN [s |-> s, ret |-> remaining_data, hang |-> FALSE]
    ELSE Bind(BPTree_readNode(s, current_leaf, NewNode), LAMBDA r :
    IF ~r.ret THEN [s |-> r.s, ret |-> remaining_data, hang |-> FALSE]
    ELSE IF fuel = 0 THEN [s |-> r.s, ret |-> remaining_data, hang |-> TRUE]
    ELSE CollectRemaining(r.s, r.node.next_leaf,
            remaining_data \o LeafSurvivors(r.node, 0, min_key, max_key),
            min_key, max_key, fuel - 1))

\* bptree.h removeRange: the index is cleared and rebuilt from the survivors
Rebuild(s, remaining_data) ==
    IF remaining_data = <<>> THEN s
    ELSE Bind(BPTree_bulkLoad(s, SortPairs(remaining_data)), LAMBDA bl :
         IF bl.s.t.crashed THEN bl.s
         ELSE [bl.s EXCEPT !.t.next_node_id = REBUILT_NODE_COUNT])

BPTree_removeRange_h(s, min_key, max_key) ==
    Bind(BPTree_rangeSearch(s, min_key, max_key), LAMBDA rs :
    Bind(BPTree_findLeaf(rs.s, 0), LAMBDA fl :
    Bind(CollectRemaining(fl.s, fl.ret, <<>>, min_key, max_key, MaxWalk), LAMBDA cr :
    [s |-> Rebuild([cr.s EXCEPT !.t.root_id = -1, !.t.next_node_id = 0], cr.ret),
     ret |-> Len(rs.ret),
     hang |-> rs.hang \/ fl.hang \/ cr.hang])))

BPTree_removeRange(s, min_key, max_key, impl) ==
    IF impl = "h" THEN BPTree_removeRange_h(s, min_key, max_key)
    ELSE BPTree_removeRange_cpp(s, min_key, max_key)

(***************************************************************************)
(* Index actions: one per public method of BPTree.  btOp records the last  *)
(* call with its arguments and result; btGhost records which build runs    *)
(* (impl: fixed by the first call whose code differs between the two, and  *)
(* "any" before), the pairs bulk-loaded and inserted so far, and the call  *)
(* counts that bound the exploration.                                      *)
(***************************************************************************)
\* largest bulk-load input
MaxData == 10

\* insert calls explored on an index that was not bulk-loaded
MaxInserts == 4

\* insert / remove / removeRange calls explored after the build-up
MaxMuts == 1

\* open calls explored
MaxOpens == 2

\* largest index (in entries) that is closed and opened a second time
MaxReopenSize == 4

\* largest bulk-loaded index (in entries) that is modified afterwards
MaxMutSize == 10

\* insert calls explored on an index that grows until an internal node splits
MaxGrowth == 10

\* largest bulk-loaded index (in entries) that runs of EitherSpec continue from
MaxEitherSize == 2

\* point deletes in a row on a tree grown by inserts
MaxRemoves == 3

KeyValues == {0, KeyUnit, 2 * KeyUnit}

Patterns == {"asc", "desc"}

\* the pointer of the p-th record of the heap file (p from 0)
HeapPointer(p) == RecordPointer(p \div MAX_RECORDS, p % MAX_RECORDS)

\* how many of each key the input holds
CountVectors ==
    {cnt \in [KeyValues -> 0..MaxData] :
        cnt[0] + cnt[KeyUnit] + cnt[2 * KeyUnit] <= MaxData}

\* the keys of the input, ascending
AscendingKeys(cnt) ==
    [i \in 1..cnt[0] |-> 0] \o [i \in 1..cnt[KeyUnit] |-> KeyUnit]
      \o [i \in 1..cnt[2 * KeyUnit] |-> 2 * KeyUnit]

\* the input of bulkLoad: the pairs in heap order
DataOf(cnt, pattern) ==
    LET ks == AscendingKeys(cnt)
        n == Len(ks)
    IN  [p \in 1..n |->
            <<IF pattern = "asc" THEN ks[p] ELSE ks[n + 1 - p], HeapPointer(p - 1)>>]

IdxState == [t |-> bt, f |-> ifile]

QueryNames == {"search", "rangeSearch", "getNumLevels"}

\* the process is alive and the last call returned; a query (which writes
\* nothing) is explored as the last call of a run
Running == ~bt.crashed /\ ~btOp.hang /\ btOp.name \notin QueryNames

\* calls are explored on an open instance and on one that was never opened
Usable == Running /\ (bt.is_open \/ btGhost.opens = 0)

\* queries are explored before the first removal
Queryable == ~btGhost.removed

\* an insert / remove / removeRange after the build-up
Mutable == btGhost.muts < MaxMuts /\ Len(btGhost.loaded) <= MaxMutSize

Call(name, arg, ret, hang) == [name |-> name, arg |-> arg, ret |-> ret, hang |-> hang]

\* an insert of the build-up: the index was opened once and holds inserts only
BuildUp ==
    /\ bt.is_open /\ btGhost.opens = 1
    /\ btGhost.loaded = <<>> /\ btGhost.muts = 0
    /\ Len(btGhost.inserted) < MaxInserts

BtOpen ==
    /\ Running
    /\ btGhost.opens < MaxOpens
    /\ IF btGhost.opens = 0
       THEN btGhost.inserted = <<>> /\ btGhost.muts = 0
       ELSE Len(btGhost.loaded) + Len(btGhost.inserted) <= MaxReopenSize
    /\ LET r == BPTree_open(IdxState)
       IN  /\ bt' = r.s.t
           /\ ifile' = r.s.f
           /\ btOp' = Call("open", <<>>, r.ret, FALSE)
    /\ btGhost' = [btGhost EXCEPT !.opens = @ + 1]
    /\ UNCHANGED <<heapVars, drv, codec, parser, run>>

BtClose ==
    /\ Running
    /\ bt.is_open \/ btOp.name = "close"
    /\ Len(btGhost.loaded) + Len(btGhost.inserted) <= MaxReopenSize
    /\ LET r == BPTree_close(IdxState)
       IN  /\ bt' = r.t
           /\ ifile' = r.f
    /\ btOp' = Call("close", <<>>, TRUE, FALSE)
    /\ UNCHANGED <<btGhost, heapVars, drv, codec, parser, run>>

\* the instance is destroyed (the destructor closes) and a new one constructed
BtNewInstance ==
    /\ Running
    /\ btOp.name = "close"
    /\ LET r == BPTree_close(IdxState)
       IN  ifile' = r.f
    /\ bt' = BPTree_new
    /\ btOp' = Call("new", <<>>, TRUE, FALSE)
    /\ UNCHANGED <<btGhost, heapVars, drv, codec, parser, run>>

BulkLoad(cnt, pattern) ==
    /\ Usable
    /\ btGhost.loaded = <<>> /\ btGhost.inserted = <<>> /\ btGhost.muts = 0
    /\ btOp.name \in {"new", "open"}
    /\ LET data == DataOf(cnt, pattern)
           r == BPTree_bulkLoad(IdxState, data)
       IN  /\ bt' = r.s.t
           /\ ifile' = r.s.f
           /\ btOp' = Call("bulkLoad", Len(data), r.ret, FALSE)
           /\ btGhost' = [btGhost EXCEPT !.loaded = IF r.ret THEN data ELSE @]
    /\ UNCHANGED <<heapVars, drv, codec, parser, run>>

Insert(key, ub) ==
    /\ Usable
    /\ BuildUp \/ Mutable
    /\ LET ptr == HeapPointer(Len(btGhost.loaded) + Len(btGhost.inserted))
           r == BPTree_insert(IdxState, key, ptr, ub)
       IN  /\ bt' = r.s.t
           /\ ifile' = r.s.f
           /\ btOp' = Call("insert", <<key>>, r.ret, r.hang)
           /\ btGhost' = [btGhost EXCEPT
                            !.inserted = IF r.ret THEN Append(@, <<key, ptr>>) ELSE @,
                            !.muts = IF BuildUp THEN @ ELSE @ + 1]
    /\ UNCHANGED <<heapVars, drv, codec, parser, run>>

Remove(key, impl) ==
    /\ Usable
    /\ Mutable
    /\ btGhost.impl \in {"any", impl}
    /\ LET r == BPTree_remove(IdxState, key, impl)
       IN  /\ bt' = r.s.t
           /\ ifile' = r.s.f
           /\ btOp' = Call("remove", <<key>>, r.ret, r.hang)
    /\ btGhost' = [btGhost EXCEPT !.muts = @ + 1, !.removed = TRUE, !.impl = impl]
    /\ UNCHANGED <<heapVars, drv, codec, parser, run>>

\* inserts one after the other on an index that holds inserts only, until
\* an internal node has been split
InsertMore(key, ub) ==
    /\ Usable
    /\ bt.is_open /\ btGhost.opens = 1
    /\ btGhost.loaded = <<>> /\ btGhost.muts = 0
    /\ Len(btGhost.inserted) < MaxGrowth
    /\ LET ptr == HeapPointer(Len(btGhost.inserted))
           r == BPTree_insert(IdxState, key, ptr, ub)
       IN  /\ bt' = r.s.t
           /\ ifile' = r.s.f
           /\ btOp' = Call("insert", <<key>>, r.ret, r.hang)
           /\ btGhost' = [btGhost EXCEPT
                            !.inserted = IF r.ret THEN Append(@, <<key, ptr>>) ELSE @]
    /\ UNCHANGED <<heapVars, drv, codec, parser, run>>

\* point deletes one after the other, on a tree grown by inserts alone
RemoveInserted(key, impl) ==
    /\ Usable
    /\ btGhost.loaded = <<>> /\ btGhost.inserted # <<>>
    /\ btGhost.muts < MaxRemoves
    /\ btGhost.impl \in {"any", impl}
    /\ LET r == BPTree_remove(IdxState, key, impl)
       IN  /\ bt' = r.s.t
           /\ ifile' = r.s.f
           /\ btOp' = Call("remove", <<key>>, r.ret, r.hang)
    /\ btGhost' = [btGhost EXCEPT !.muts = @ + 1, !.removed = TRUE, !.impl = impl]
    /\ UNCHANGED <<heapVars, drv, codec, parser, run>>

RemoveRange(min_key, max_key, impl) ==
    /\ Usable
    /\ Mutable
    /\ btGhost.impl \in {"any", impl}
    /\ LET r == BPTree_removeRange(IdxState, min_key, max_key, impl)
       IN  /\ bt' = r.s.t
           /\ ifile' = r.s.f
           /\ btOp' = Call("removeRange", <<min_key, max_key>>, r.ret, r.hang)
    /\ btGhost' = [btGhost EXCEPT !.muts = @ + 1, !.removed = TRUE, !.impl = impl]
    /\ UNCHANGED <<heapVars, drv, codec, parser, run>>

Search(key) ==
    /\ Usable
    /\ Queryable
    /\ LET r == BPTree_search(IdxState, key)
       IN  /\ bt' = r.s.t
           /\ ifile' = r.s.f
           /\ btOp' = Call("search", <<key>>, r.ret, r.hang)
    /\ UNCHANGED <<btGhost, heapVars, drv, codec, parser, run>>

RangeSearch(min_key, max_key) ==
    /\ Usable
    /\ Queryable
    /\ LET r == BPTree_rangeSearch(IdxState, min_key, max_key)
       IN  /\ bt' = r.s.t
           /\ ifile' = r.s.f
           /\ btOp' = Call("rangeSearch", <<min_key, max_key>>, r.ret, r.hang)
    /\ UNCHANGED <<btGhost, heapVars, drv, codec, parser, run>>

GetNumLevels ==
    /\ Usable
    /\ Queryable
    /\ LET r == BPTree_getNumLevels(IdxState)
       IN  /\ bt' = r.s.t
           /\ ifile' = r.s.f
           /\ btOp' = Call("getNumLevels", <<>>, r.ret, r.hang)
    /\ UNCHANGED <<btGhost, heapVars, drv, codec, parser, run>>

\* resetIOCounters() before the queries, as the driver calls it
BtResetIO ==
    /\ Running
    /\ bt.is_open
    /\ btOp.name \in {"open", "bulkLoad"}
    /\ bt' = BPTree_resetIOCounters(bt)
    /\ btOp' = Call("resetIOCounters", <<>>, TRUE, FALSE)
    /\ UNCHANGED <<ifile, btGhost, heapVars, drv, codec, parser, run>>

\* the queries that the driver makes after resetIOCounters
QueryAfterReset ==
    /\ btOp.name = "resetIOCounters"
    /\ \/ \E min_key \in KeyValues, max_key \in KeyValues :
             min_key <= max_key /\ RangeSearch(min_key, max_key)
       \/ GetNumLevels

Next ==
    \/ BtOpen
    \/ BtClose
    \/ BtNewInstance
    \/ \E cnt \in CountVectors, pattern \in Patterns : BulkLoad(cnt, pattern)
    \/ \E key \in KeyValues, ub \in ShiftOrders : Insert(key, ub)
    \/ \E key \in KeyValues, impl \in Implementations : Remove(key, impl)
    \/ \E min_key \in KeyValues, max_key \in KeyValues, impl \in Implementations :
          min_key <= max_key /\ RemoveRange(min_key, max_key, impl)
    \/ \E key \in KeyValues : Search(key)
    \/ \E min_key \in KeyValues, max_key \in KeyValues :
          min_key <= max_key /\ RangeSearch(min_key, max_key)
    \/ GetNumLevels

(***************************************************************************)
(* The driver (src/src/main.cpp)                                           *)
(*                                                                         *)
(* main runs task1, task2 and task3; task3 calls generateResultsTables.    *)
(* Each function constructs its own Database and BPTree objects as locals; *)
(* a local is destroyed (and its stream closed) when its function returns. *)
(* The driver is modelled by its position, the number of records parsed    *)
(* and stored, the number of index hits, its loop counter and the set of   *)
(* instances whose stream is open.  Whether an open succeeds is decided by *)
(* the environment (the output directory).                                 *)
(***************************************************************************)
\* records that Parser::parseFile returns
MaxParsed == 3

DATABASE_PATH == "output/database.bin"

BPTREE_PATH == "output/bptree.bin"

\* the Database and BPTree locals of the four functions, with their paths
DriverInstances ==
    [name : {"task1", "task2", "task3", "tables"}, path : {DATABASE_PATH, BPTREE_PATH}]
      \ {[name |-> "task1", path |-> BPTREE_PATH]}

Local(name, path) == [name |-> name, path |-> path]

\* the locals of a function go out of scope: their destructors close them
Returned(open, name) == {x \in open : x.name # name}

DriverStart ==
    [pc |-> "main", parsed |-> 0, stored |-> 0, hits |-> 0, i |-> 0, open |-> {}]

\* blocks of the heap file that holds the stored records
DriverBlocks == CeilDiv(drv.stored, BlockSlots)

DriverStep(next) == drv' = next /\ UNCHANGED <<heapVars, idxVars, codec, parser, run>>

\* task1: Parser::parseFile
Task1Parse(n) ==
    /\ drv.pc = "main"
    /\ DriverStep([drv EXCEPT !.pc = "task1.open", !.parsed = n])

\* task1: Database db(...); if (!db.open()) return;
Task1Open(ok) ==
    /\ drv.pc = "task1.open"
    /\ DriverStep(IF ok
                  THEN [drv EXCEPT !.pc = "task1.add", !.i = 0,
                                   !.open = @ \cup {Local("task1", DATABASE_PATH)}]
                  ELSE [drv EXCEPT !.pc = "task2.open"])

\* task1: for (record : records) db.addRecord(record)
Task1AddRecord ==
    /\ drv.pc = "task1.add"
    /\ drv.i < drv.parsed
    /\ DriverStep([drv EXCEPT !.i = @ + 1, !.stored = @ + 1])

\* task1: printStatistics, return
Task1Return ==
    /\ drv.pc = "task1.add"
    /\ drv.i = drv.parsed
    /\ DriverStep([drv EXCEPT !.pc = "task2.open", !.open = Returned(@, "task1")])

\* task2: Database db(...); if (!db.open()) return;
Task2OpenDatabase(ok) ==
    /\ drv.pc = "task2.open"
    /\ DriverStep(IF ok
                  THEN [drv EXCEPT !.pc = "task2.openIndex",
                                   !.open = @ \cup {Local("task2", DATABASE_PATH)}]
                  ELSE [drv EXCEPT !.pc = "task3.open"])

\* task2: BPTree bptree(...); if (!bptree.open()) return;
Task2OpenIndex(ok) ==
    /\ drv.pc = "task2.openIndex"
    /\ DriverStep(IF ok
                  THEN [drv EXCEPT !.pc = "task2.read", !.i = 0,
                                   !.open = @ \cup {Local("task2", BPTREE_PATH)}]
                  ELSE [drv EXCEPT !.pc = "task3.open", !.open = Returned(@, "task2")])

\* task2: for (block_id < db.getNumBlocks()) db.readBlock(block_id, block)
Task2ReadBlock ==
    /\ drv.pc = "task2.read"
    /\ drv.i < DriverBlocks
    /\ DriverStep([drv EXCEPT !.i = @ + 1])

\* task2: bptree.bulkLoad(index_data); bptree.printStatistics()
Task2BulkLoad ==
    /\ drv.pc = "task2.read"
    /\ drv.i = DriverBlocks
    /\ DriverStep([drv EXCEPT !.pc = "task2.close"])

\* task2: bptree.close()
Task2Close ==
    /\ drv.pc = "task2.close"
    /\ DriverStep([drv EXCEPT !.pc = "task2.return",
                              !.open = @ \ {Local("task2", BPTREE_PATH)}])

Task2Return ==
    /\ drv.pc = "task2.return"
    /\ DriverStep([drv EXCEPT !.pc = "task3.open", !.open = Returned(@, "task2")])

\* task3: Database db(...); BPTree bptree(...);
\* if (!db.open() || !bptree.open()) return;
Task3Open(okDatabase, okIndex) ==
    /\ drv.pc = "task3.open"
    /\ DriverStep(IF okDatabase /\ okIndex
                  THEN [drv EXCEPT !.pc = "task3.search",
                                   !.open = @ \cup {Local("task3", DATABASE_PATH),
                                                    Local("task3", BPTREE_PATH)}]
                  ELSE [drv EXCEPT !.pc = "done"])

\* task3: resetIOCounters; bptree.rangeSearch(0.9f, 1.0f)
Task3RangeSearch(hits) ==
    /\ drv.pc = "task3.search"
    /\ hits <= drv.stored
    /\ DriverStep([drv EXCEPT !.pc = "task3.fetch", !.hits = hits, !.i = 0])

\* task3: db.readBlock for the blocks of the hits
Task3FetchBlock ==
    /\ drv.pc = "task3.fetch"
    /\ drv.i < CeilDiv(drv.hits, BlockSlots)
    /\ DriverStep([drv EXCEPT !.i = @ + 1])

\* task3: db.resetIOCounters(), then the scan of every block begins
Task3BeginScan ==
    /\ drv.pc = "task3.fetch"
    /\ drv.i = CeilDiv(drv.hits, BlockSlots)
    /\ DriverStep([drv EXCEPT !.pc = "task3.scan", !.i = 0])

Task3ScanBlock ==
    /\ drv.pc = "task3.scan"
    /\ drv.i < DriverBlocks
    /\ DriverStep([drv EXCEPT !.i = @ + 1])

\* task3: bptree.removeRange(0.9f, 1.0f)
Task3RemoveRange ==
    /\ drv.pc = "task3.scan"
    /\ drv.i = DriverBlocks
    /\ DriverStep([drv EXCEPT !.pc = "task3.delete", !.i = 0])

\* task3: for (ptr : bptree_results) db.deleteRecord(...)
Task3DeleteRecord ==
    /\ drv.pc = "task3.delete"
    /\ drv.i < drv.hits
    /\ DriverStep([drv EXCEPT !.i = @ + 1])

\* task3 calls generateResultsTables: Database db(...); BPTree bptree(...);
\* if (!db.open() || !bptree.open()) return;
TablesOpen(okDatabase, okIndex) ==
    /\ drv.pc = "task3.delete"
    /\ drv.i = drv.hits
    /\ DriverStep(IF okDatabase /\ okIndex
                  THEN [drv EXCEPT !.pc = "tables.write",
                                   !.open = @ \cup {Local("tables", DATABASE_PATH),
                                                    Local("tables", BPTREE_PATH)}]
                  ELSE [drv EXCEPT !.pc = "task3.return"])

\* generateResultsTables: the four result files
TablesWrite ==
    /\ drv.pc = "tables.write"
    /\ DriverStep([drv EXCEPT !.pc = "tables.return"])

TablesReturn ==
    /\ drv.pc = "tables.return"
    /\ DriverStep([drv EXCEPT !.pc = "task3.return", !.open = Returned(@, "tables")])

Task3Return ==
    /\ drv.pc = "task3.return"
    /\ DriverStep([drv EXCEPT !.pc = "done", !.open = Returned(@, "task3")])

DriverNext ==
    \/ \E n \in 0..MaxParsed : Task1Parse(n)
    \/ \E ok \in BOOLEAN : Task1Open(ok)
    \/ Task1AddRecord
    \/ Task1Return
    \/ \E ok \in BOOLEAN : Task2OpenDatabase(ok)
    \/ \E ok \in BOOLEAN : Task2OpenIndex(ok)
    \/ Task2ReadBlock
    \/ Task2BulkLoad
    \/ Task2Close
    \/ Task2Return
    \/ \E okDatabase \in BOOLEAN, okIndex \in BOOLEAN : Task3Open(okDatabase, okIndex)
    \/ \E hits \in 0..MaxParsed : Task3RangeSearch(hits)
    \/ Task3FetchBlock
    \/ Task3BeginScan
    \/ Task3ScanBlock
    \/ Task3RemoveRange
    \/ Task3DeleteRecord
    \/ \E okDatabase \in BOOLEAN, okIndex \in BOOLEAN : TablesOpen(okDatabase, okIndex)
    \/ TablesWrite
    \/ TablesReturn
    \/ Task3Return

(***************************************************************************)
(* A RecordPointer on its way into a leaf slot and back                    *)
(*                                                                         *)
(* insertIntoLeaf and bulkLoad store block_id * 10000 + record_index in    *)
(* children[i]; search, rangeSearch and removeRange take it apart by / and *)
(* %.  The pointers are those of the heap file at its real size: block ids *)
(* below 25600 (100 MiB of 4096-byte blocks) and the 92 slots of a block.  *)
(* Two pointers are taken through the encoding together.                   *)
(***************************************************************************)
\* blocks of a heap file at the cap: 100 * 1024 * 1024 / 4096
HEAP_BLOCKS == 25600

\* records of a block: (4096 - 16) / 44
BLOCK_RECORDS == 92

\* the pointers are drawn from this many values at each end of a range
EndWidth == 3

EndsOf(n) == (0..(EndWidth - 1)) \cup ((n - EndWidth)..(n - 1))

PointerSamples ==
    {RecordPointer(b, i) : b \in EndsOf(HEAP_BLOCKS), i \in EndsOf(BLOCK_RECORDS)}

NoPointers ==
    [stage |-> "none", p |-> RecordPointer(0, 0), q |-> RecordPointer(0, 0),
     ep |-> 0, eq |-> 0, dp |-> RecordPointer(0, 0), dq |-> RecordPointer(0, 0)]

\* signed overflow is undefined: the slot then holds some int
OverflowValues == {-INT_MAX, 0, INT_MAX}

\* children[i] = ptr.block_id * 10000 + ptr.record_index
EncodeBoth(ep, eq) ==
    /\ codec.stage = "pointers"
    /\ IF EncodeFits(codec.p) THEN ep = EncodePointer(codec.p) ELSE ep \in OverflowValues
    /\ IF EncodeFits(codec.q) THEN eq = EncodePointer(codec.q) ELSE eq \in OverflowValues
    /\ codec' = [codec EXCEPT !.stage = "encoded", !.ep = ep, !.eq = eq]
    /\ UNCHANGED <<heapVars, idxVars, drv, parser, run>>

\* block_id = encoded_ptr / 10000; record_index = encoded_ptr % 10000
DecodeBoth ==
    /\ codec.stage = "encoded"
    /\ codec' = [codec EXCEPT !.stage = "decoded",
                              !.dp = DecodePointer(codec.ep),
                              !.dq = DecodePointer(codec.eq)]
    /\ UNCHANGED <<heapVars, idxVars, drv, parser, run>>

PointerNext ==
    \/ \E ep \in {EncodePointer(codec.p)} \cup OverflowValues,
          eq \in {EncodePointer(codec.q)} \cup OverflowValues : EncodeBoth(ep, eq)
    \/ DecodeBoth

(***************************************************************************)
(* The ingester (src/src/utils/parser.cpp)                                 *)
(*                                                                         *)
(* parseFile reads games.txt line by line, skips the first line, splits    *)
(* every other line at the tabs, converts the numeric fields with          *)
(* std::stoi and std::stof and keeps the record if isValidRecord accepts   *)
(* it.  A text is a sequence of characters.  The texts of the model are    *)
(* short: digits, a sign, a point, a blank, '/' and the letter q, so that  *)
(* the exponent, hexadecimal, inf and nan forms of strtof and the range    *)
(* errors of both conversions do not arise.                                *)
(***************************************************************************)
\* data lines that parseFile reads after the header line
MaxLines == 2

TAB == "\t"

DigitChars == {"0", "1", "2", "3", "4", "5", "6", "7", "8", "9"}

DigitValue(c) ==
    CASE c = "0" -> 0 [] c = "1" -> 1 [] c = "2" -> 2 [] c = "3" -> 3 [] c = "4" -> 4
      [] c = "5" -> 5 [] c = "6" -> 6 [] c = "7" -> 7 [] c = "8" -> 8 [] c = "9" -> 9

\* a float as the decimal fraction num / den, den a power of ten, in lowest terms
Zero == [num |-> 0, den |-> 1]

One == [num |-> 1, den |-> 1]

RECURSIVE Lowest(_)
Lowest(x) ==
    IF x.den > 1 /\ x.num % 10 = 0
      THEN Lowest([num |-> x.num \div 10, den |-> x.den \div 10])
      ELSE x

FloatLessEq(a, b) == a.num * b.den <= b.num * a.den

\* both conversions skip leading white space
RECURSIVE SkipSpace(_, _)
SkipSpace(str, i) ==
    IF i <= Len(str) /\ str[i] = " " THEN SkipSpace(str, i + 1) ELSE i

\* the longest run of digits from position i: its value, its length, and
\* whether the value stayed within int
RECURSIVE DigitRun(_, _, _)
DigitRun(str, i, acc) ==
    IF i <= Len(str) /\ str[i] \in DigitChars
      THEN LET d == DigitValue(str[i])
           IN  IF ~acc.fits \/ acc.value > (INT_MAX - d) \div 10
                 THEN DigitRun(str, i + 1, [acc EXCEPT !.fits = FALSE, !.digits = @ + 1])
                 ELSE DigitRun(str, i + 1, [acc EXCEPT !.value = @ * 10 + d, !.digits = @ + 1])
      ELSE acc

NoDigits == [value |-> 0, digits |-> 0, fits |-> TRUE]

\* std::stoi: white space, a sign, digits; what follows the digits is ignored
\* and no digit at all or a value out of range is an exception
Parser_stoi(str) ==
    LET i == SkipSpace(str, 1)
        signed == i <= Len(str) /\ str[i] \in {"-", "+"}
        scan == DigitRun(str, IF signed THEN i + 1 ELSE i, NoDigits)
    IN  [throws |-> scan.digits = 0 \/ ~scan.fits,
         value |-> IF signed /\ str[i] = "-" THEN -scan.value ELSE scan.value]

\* std::stof: white space, a sign, digits, a point, digits; at least one digit
Parser_stof(str) ==
    LET i == SkipSpace(str, 1)
        signed == i <= Len(str) /\ str[i] \in {"-", "+"}
        j == IF signed THEN i + 1 ELSE i
        whole == DigitRun(str, j, NoDigits)
        k == j + whole.digits
        point == k <= Len(str) /\ str[k] = "."
        frac == IF point THEN DigitRun(str, k + 1, NoDigits) ELSE NoDigits
        den == 10 ^ frac.digits
        num == whole.value * den + frac.value
    IN  [throws |-> whole.digits + frac.digits = 0,
         value |-> Lowest([num |-> IF signed /\ str[i] = "-" THEN -num ELSE num,
                           den |-> den])]

Parser_stringToFloat(str) ==
    LET r == Parser_stof(str) IN IF r.throws THEN Zero ELSE r.value

Parser_stringToInt(str) ==
    LET r == Parser_stoi(str) IN IF r.throws THEN 0 ELSE r.value

\* std::getline(ss, token, delimiter) until it extracts nothing: the text
\* between the delimiters, without an empty text after the last delimiter
RECURSIVE SplitLoop(_, _, _, _, _)
SplitLoop(str, delimiter, i, token, tokens) ==
    IF i > Len(str)
      THEN IF token = <<>> THEN tokens ELSE Append(tokens, token)
      ELSE IF str[i] = delimiter
             THEN SplitLoop(str, delimiter, i + 1, <<>>, Append(tokens, token))
             ELSE SplitLoop(str, delimiter, i + 1, Append(token, str[i]), tokens)

Parser_split(str, delimiter) == SplitLoop(str, delimiter, 1, <<>>, <<>>)

\* Record(): memset to zero
Record_new ==
    [game_date |-> <<>>, team_id_home |-> 0, pts_home |-> 0, fg_pct_home |-> Zero,
     ft_pct_home |-> Zero, fg3_pct_home |-> Zero, ast_home |-> 0, reb_home |-> 0,
     home_team_wins |-> 0]

\* strncpy(game_date, date.c_str(), 10); game_date[10] = '\0'
DATE_CHARS == 10

Record_of(date, team_id, pts, fg_pct, ft_pct, fg3_pct, ast, reb, wins) ==
    [game_date |-> SubSeq(date, 1, Min(Len(date), DATE_CHARS)),
     team_id_home |-> team_id, pts_home |-> pts, fg_pct_home |-> fg_pct,
     ft_pct_home |-> ft_pct, fg3_pct_home |-> fg3_pct, ast_home |-> ast,
     reb_home |-> reb, home_team_wins |-> wins]

\* fields of a line of games.txt
FIELDS == 9

Parser_parseLine(line) ==
    LET tokens == Parser_split(line, TAB)
    IN  IF Len(tokens) < FIELDS
          THEN Record_new
          ELSE Record_of(tokens[1], Parser_stringToInt(tokens[2]),
                         Parser_stringToInt(tokens[3]), Parser_stringToFloat(tokens[4]),
                         Parser_stringToFloat(tokens[5]), Parser_stringToFloat(tokens[6]),
                         Parser_stringToInt(tokens[7]), Parser_stringToInt(tokens[8]),
                         Parser_stringToInt(tokens[9]))

Parser_isValidRecord(record) ==
    /\ record.team_id_home > 0
    /\ record.pts_home >= 0
    /\ FloatLessEq(Zero, record.ft_pct_home)
    /\ FloatLessEq(record.ft_pct_home, One)
    /\ Len(record.game_date) > 0

\* the texts of the fields of a line
DateTexts == {<<>>, <<"1", "/", "1">>}

TeamTexts == {<<"1">>, <<"0">>, <<"1", "q">>}

PtsTexts == {<<"1">>, <<"0">>, <<"-", "1">>, <<"q">>, <<>>}

FtPctTexts == {<<"0", ".", "5">>, <<"1">>, <<"1", ".", "5">>, <<"q">>}

OtherTexts == {<<"1">>, <<>>}

FieldCounts == {FIELDS - 1, FIELDS, FIELDS + 1}

\* a line as its fields: date, team_id, pts, fg_pct, ft_pct, fg3_pct, ast,
\* reb, wins and what follows them
Rows ==
    {SubSeq(<<date, team, pts, other, ft, other, other, other, other, other>>, 1, n) :
        date \in DateTexts, team \in TeamTexts, pts \in PtsTexts, ft \in FtPctTexts,
        other \in OtherTexts, n \in FieldCounts}

\* the text of the line: the fields with a tab between them
RECURSIVE LineOf(_)
LineOf(row) ==
    IF Len(row) = 0 THEN <<>>
    ELSE IF Len(row) = 1 THEN row[1]
    ELSE row[1] \o <<TAB>> \o LineOf(Tail(row))

\* the first line: the column names, or a line like any other
HeaderRows ==
    {<<<<"q">>, <<"q">>>>,
     <<<<"1", "/", "1">>, <<"1">>, <<"1">>, <<"1">>, <<"1">>, <<"1">>, <<"1">>, <<"1">>, <<"1">>>>}

\* no call of parseFile was made
ParserIdle ==
    [stage |-> "none", first_line |-> TRUE, row |-> <<>>, line |-> <<>>,
     lines |-> 0, pushed |-> FALSE, records |-> <<>>]

\* std::ifstream file(filename); if (!file.is_open()) return records
ParseFileOpen(ok) ==
    /\ parser.stage = "none"
    /\ parser' = [parser EXCEPT !.stage = IF ok THEN "reading" ELSE "returned"]
    /\ UNCHANGED <<heapVars, idxVars, drv, codec, run>>

\* one turn of the loop of parseFile
ParseFileGetLine(row) ==
    /\ parser.stage = "reading"
    /\ parser.lines < MaxLines
    /\ LET line == LineOf(row)
           record == Parser_parseLine(line)
           keep == ~parser.first_line /\ Parser_isValidRecord(record)
       IN  parser' = [parser EXCEPT
                         !.first_line = FALSE,
                         !.row = row, !.line = line,
                         !.lines = IF parser.first_line THEN @ ELSE @ + 1,
                         !.pushed = keep,
                         !.records = IF keep THEN Append(@, record) ELSE @]
    /\ UNCHANGED <<heapVars, idxVars, drv, codec, run>>

\* getline fails at the end of the file: file.close(); return records
ParseFileReturn ==
    /\ parser.stage = "reading"
    /\ parser' = [parser EXCEPT !.stage = "returned"]
    /\ UNCHANGED <<heapVars, idxVars, drv, codec, run>>

ParserNext ==
    \/ \E ok \in BOOLEAN : ParseFileOpen(ok)
    \/ \E row \in IF parser.first_line THEN HeaderRows ELSE Rows :
          ParseFileGetLine(row)
    \/ ParseFileReturn

(***************************************************************************)
(* main on the heap file and the index file (src/src/main.cpp)             *)
(*                                                                         *)
(* task1 stores the parsed records, task2 builds the index from the heap   *)
(* file by bulkLoad, task3 queries [0.9, 1.0] through the index and by a   *)
(* scan, deletes the range from the index and the heap and calls           *)
(* generateResultsTables.  Here the calls act on the two files: db and bt  *)
(* are the Database and BPTree locals of task3, disk and ifile the files.  *)
(* A record of the model with value r has ft_pct_home = r * KeyUnit; the   *)
(* largest record value stands for 1.0f, and 0.9f lies between it and the  *)
(* value below.                                                            *)
(***************************************************************************)
\* records that task1 stores
MaxStored == 6

\* record.ft_pct_home
FtPctOf(record) == record * KeyUnit

\* rangeSearch(0.9f, 1.0f), removeRange(0.9f, 1.0f)
QUERY_MAX == MaxRecordValue * KeyUnit

QUERY_MIN == QUERY_MAX - KeyUnit \div 10

RunStart ==
    [pc |-> "main", impl |-> "any", bptree_results |-> <<>>, deleted_records |-> <<>>,
     brute_force_results |-> <<>>, blocks_accessed |-> 0, deleted_count |-> 0,
     db_deleted_count |-> 0,
     tables |-> [root_id |-> -1, num_nodes |-> 0, num_levels |-> 0, root_keys |-> <<>>,
                 results |-> <<>>]]

\* the inputs of task1: what Parser::parseFile returned
StoredInputs == UNION {[1..n -> Records] : n \in 0..MaxStored}

\* for (const Record& record : records) db.addRecord(record)
RECURSIVE AddRecords(_, _, _, _)
AddRecords(d, f, records, i) ==
    IF i > Len(records) THEN [d |-> d, f |-> f]
    ELSE LET a == Database_addRecord(d, f, records[i])
         IN  AddRecords(a.d, a.f, records, i + 1)

\* the records of a block that the loops of main look at, with their slots
RECURSIVE BlockPairs(_, _, _)
BlockPairs(block, block_id, record_index) ==
    IF record_index >= Block_getNumRecords(block) THEN <<>>
    ELSE << <<FtPctOf(Block_getRecord(block, record_index, EmptyRecord)),
              RecordPointer(block_id, record_index)>> >>
         \o BlockPairs(block, block_id, record_index + 1)

\* task2, step 3a: for (block_id = 0; block_id < db.getNumBlocks(); block_id++)
RECURSIVE CollectIndexData(_, _, _, _)
CollectIndexData(d, f, block_id, index_data) ==
    IF block_id >= d.num_blocks THEN [d |-> d, f |-> f, ret |-> index_data]
    ELSE LET r == Database_readBlock(d, f, block_id)
         IN  CollectIndexData(r.d, r.f, block_id + 1,
                 IF r.ret THEN index_data \o BlockPairs(r.block, block_id, 0)
                 ELSE index_data)

\* BPTree::getRootKeys / getRootNodeKeys
BPTree_getRootKeys(s) ==
    IF s.t.root_id = -1 THEN [s |-> s, ret |-> <<>>]
    ELSE LET r == BPTree_readNode(s, s.t.root_id, NewNode)
         IN  [s |-> r.s,
              ret |-> IF r.ret THEN [i \in 1..Max(r.node.num_keys, 0) |-> GetKey(r.node, i - 1)]
                      ELSE <<>>]

\* BPTree::printStatistics: getNumNodes, getNumLevels, getRootKeys
BPTree_printStatistics(s) ==
    LET levels == BPTree_getNumLevels(s)
        keys == BPTree_getRootKeys(levels.s)
    IN  [s |-> keys.s,
         ret |-> [root_id |-> s.t.root_id, num_nodes |-> s.t.next_node_id,
                  num_levels |-> levels.ret, root_keys |-> keys.ret],
         hang |-> levels.hang]

\* task1_storage_component after parseFile; its Database is closed by the
\* destructor when the function returns
RunTask1(records) ==
    /\ run.pc = "main"
    /\ LET o == Database_open(Database_new, disk)
           a == AddRecords(o.d, o.f, records, 1)
           c == Database_close(a.d, a.f)
       IN  /\ disk' = c.f
           /\ run' = [run EXCEPT !.pc = IF o.ret THEN "task1" ELSE "failed"]
    /\ UNCHANGED <<db, dbOp, dbGhost, idxVars, drv, codec, parser>>

\* task2_indexing_component: open both files, collect the pairs of the
\* heap, bulkLoad, printStatistics, close
RunTask2 ==
    /\ run.pc = "task1"
    /\ LET od == Database_open(Database_new, disk)
           ob == BPTree_open([t |-> BPTree_new, f |-> ifile])
           data == CollectIndexData(od.d, od.f, 0, <<>>)
           loaded == BPTree_bulkLoad(ob.s, data.ret)
           stats == BPTree_printStatistics(loaded.s)
       IN  /\ disk' = Database_close(data.d, data.f).f
           /\ ifile' = BPTree_close(stats.s).f
           /\ run' = [run EXCEPT !.pc = IF loaded.s.t.crashed \/ stats.hang
                                         THEN "stopped" ELSE "task2"]
    /\ UNCHANGED <<db, dbOp, dbGhost, bt, btOp, btGhost, drv, codec, parser>>

\* task3, step 1: its two locals are opened and their counters reset
RunOpen ==
    /\ run.pc = "task2"
    /\ LET od == Database_open(Database_new, disk)
           ob == BPTree_open([t |-> BPTree_new, f |-> ifile])
       IN  /\ db' = Database_resetIOCounters(od.d)
           /\ disk' = od.f
           /\ bt' = BPTree_resetIOCounters(ob.s.t)
           /\ ifile' = ob.s.f
    /\ run' = [run EXCEPT !.pc = "opened"]
    /\ UNCHANGED <<dbOp, dbGhost, btOp, btGhost, drv, codec, parser>>

\* task3, step 2: bptree_results = bptree.rangeSearch(0.9f, 1.0f)
RunRangeSearch ==
    /\ run.pc = "opened"
    /\ LET rs == BPTree_rangeSearch(IdxState, QUERY_MIN, QUERY_MAX)
       IN  /\ bt' = rs.s.t
           /\ ifile' = rs.s.f
           /\ run' = [run EXCEPT !.pc = IF rs.hang THEN "stopped" ELSE "searched",
                                 !.bptree_results = rs.ret]
    /\ UNCHANGED <<heapVars, btOp, btGhost, drv, codec, parser>>

\* the records of one entry of block_to_indices with ft_pct_home > 0.9f
RECURSIVE BatchRecords(_, _, _, _)
BatchRecords(block, block_id, results, i) ==
    IF i > Len(results) THEN <<>>
    ELSE LET record == Block_getRecord(block, results[i].record_index, EmptyRecord)
         IN  (IF results[i].block_id = block_id /\ FtPctOf(record) > QUERY_MIN
              THEN <<record>> ELSE <<>>)
             \o BatchRecords(block, block_id, results, i + 1)

\* a block_to_indices that keeps one entry for each pointer
BlockToIndices_off(results) == [i \in 1..Len(results) |-> results[i].block_id]

\* the keys of std::map<int, std::vector<int>> block_to_indices in the order
\* of its iteration: each block id of the pointers once, ascending
BlockToIndices(results) ==
    LET ids == {results[i].block_id : i \in 1..Len(results)}
    IN  [k \in 1..Cardinality(ids) |->
            CHOOSE b \in ids : Cardinality({c \in ids : c < b}) = k - 1]

\* for (const auto& entry : block_to_indices): one readBlock for each entry
RECURSIVE ReadBatches(_, _, _, _, _, _)
ReadBatches(d, f, results, entries, k, deleted_records) ==
    IF k > Len(entries) THEN [d |-> d, f |-> f, ret |-> deleted_records]
    ELSE LET r == Database_readBlock(d, f, entries[k])
         IN  ReadBatches(r.d, r.f, results, entries, k + 1,
                 IF r.ret
                 THEN deleted_records \o BatchRecords(r.block, entries[k], results, 1)
                 ELSE deleted_records)

\* task3, step 3: the pointers are grouped by block and each block is read
RunBatchedRead ==
    /\ run.pc = "searched"
    /\ LET rb == ReadBatches(db, disk, run.bptree_results,
                             BlockToIndices(run.bptree_results), 1, <<>>)
       IN  /\ db' = rb.d
           /\ disk' = rb.f
           /\ run' = [run EXCEPT !.pc = "fetched", !.deleted_records = rb.ret]
    /\ UNCHANGED <<dbOp, dbGhost, idxVars, drv, codec, parser>>

\* for (block_id = 0; block_id < db.getNumBlocks(); block_id++): the scan
RECURSIVE ScanBlocks(_, _, _, _, _)
ScanBlocks(d, f, block_id, blocks_accessed, brute_force_results) ==
    IF block_id >= d.num_blocks
    THEN [d |-> d, f |-> f, blocks_accessed |-> blocks_accessed,
          ret |-> brute_force_results]
    ELSE LET r == Database_readBlock(d, f, block_id)
             found == SelectSeq(BlockRecords(r.block),
                                LAMBDA record : FtPctOf(record) > QUERY_MIN)
         IN  IF r.ret
             THEN ScanBlocks(r.d, r.f, block_id + 1, blocks_accessed + 1,
                             brute_force_results \o found)
             ELSE ScanBlocks(r.d, r.f, block_id + 1, blocks_accessed,
                             brute_force_results)

\* task3, step 4: db.resetIOCounters() and the linear scan
RunLinearScan ==
    /\ run.pc = "fetched"
    /\ LET sc == ScanBlocks(Database_resetIOCounters(db), disk, 0, 0, <<>>)
       IN  /\ db' = sc.d
           /\ disk' = sc.f
           /\ run' = [run EXCEPT !.pc = "scanned", !.brute_force_results = sc.ret,
                                 !.blocks_accessed = sc.blocks_accessed]
    /\ UNCHANGED <<dbOp, dbGhost, idxVars, drv, codec, parser>>

\* task3, step 6: deleted_count = bptree.removeRange(0.9f, 1.0f)
RunRemoveRange(impl) ==
    /\ run.pc = "scanned"
    /\ LET rr == BPTree_removeRange(IdxState, QUERY_MIN, QUERY_MAX, impl)
       IN  /\ bt' = rr.s.t
           /\ ifile' = rr.s.f
           /\ run' = [run EXCEPT !.pc = IF rr.hang \/ rr.s.t.crashed
                                         THEN "stopped" ELSE "removed",
                                 !.impl = impl, !.deleted_count = rr.ret]
    /\ UNCHANGED <<heapVars, btOp, btGhost, drv, codec, parser>>

\* for (const RecordPointer& ptr : bptree_results) db.deleteRecord(...)
RECURSIVE DeleteRecords(_, _, _, _, _)
DeleteRecords(d, f, results, i, db_deleted_count) ==
    IF i > Len(results) THEN [d |-> d, f |-> f, ret |-> db_deleted_count]
    ELSE LET r == Database_deleteRecord(d, f, results[i].block_id,
                                        results[i].record_index)
         IN  DeleteRecords(r.d, r.f, results, i + 1,
                           IF r.ret THEN db_deleted_count + 1 ELSE db_deleted_count)

\* task3, step 6: the records found through the index are deleted from the heap
RunDeleteRecords ==
    /\ run.pc = "removed"
    /\ LET dr == DeleteRecords(db, disk, run.bptree_results, 1, 0)
       IN  /\ db' = dr.d
           /\ disk' = dr.f
           /\ run' = [run EXCEPT !.pc = "deleted", !.db_deleted_count = dr.ret]
    /\ UNCHANGED <<dbOp, dbGhost, idxVars, drv, codec, parser>>

\* db.getRecord for each pointer of the repeated query
RECURSIVE GetRecords(_, _, _, _)
GetRecords(d, f, results, i) ==
    IF i > Len(results) THEN [d |-> d, f |-> f]
    ELSE LET r == Database_getRecord(d, f, results[i].block_id,
                                     results[i].record_index, EmptyRecord)
         IN  GetRecords(r.d, r.f, results, i + 1)

\* task3, steps 8 and 9: bptree.printStatistics(), then generateResultsTables
\* with a Database and a BPTree of its own on the two files, which repeats
\* the range query, reports the statistics of its BPTree and returns; its
\* locals are closed by their destructors
RunTables ==
    /\ run.pc = "deleted"
    /\ LET printed == BPTree_printStatistics(IdxState)
           od == Database_open(Database_new, disk)
           ob == BPTree_open([t |-> BPTree_new, f |-> printed.s.f])
           first == BPTree_printStatistics(ob.s)
           rs == BPTree_rangeSearch([first.s EXCEPT !.t = BPTree_resetIOCounters(@)],
                                    QUERY_MIN, QUERY_MAX)
           got == GetRecords(Database_resetIOCounters(od.d), od.f, rs.ret, 1)
           updated == BPTree_printStatistics(rs.s)
       IN  /\ bt' = printed.s.t
           /\ ifile' = BPTree_close(updated.s).f
           /\ disk' = Database_close(got.d, got.f).f
           /\ run' = [run EXCEPT
                        !.pc = IF printed.hang \/ first.hang \/ rs.hang \/ updated.hang
                               THEN "stopped" ELSE "tables",
                        !.tables = [root_id |-> updated.ret.root_id,
                                    num_nodes |-> updated.ret.num_nodes,
                                    num_levels |-> updated.ret.num_levels,
                                    root_keys |-> updated.ret.root_keys,
                                    results |-> rs.ret]]
    /\ UNCHANGED <<db, dbOp, dbGhost, btOp, btGhost, drv, codec, parser>>

\* task3 returns: the destructors of its BPTree and its Database close them
RunReturn ==
    /\ run.pc = "tables"
    /\ ifile' = BPTree_close(IdxState).f
    /\ disk' = Database_close(db, disk).f
    /\ db' = Database_new
    /\ bt' = BPTree_new
    /\ run' = [run EXCEPT !.pc = "returned"]
    /\ UNCHANGED <<dbOp, dbGhost, btOp, btGhost, drv, codec, parser>>

RunNext ==
    \/ \E records \in StoredInputs : RunTask1(records)
    \/ RunTask2
    \/ RunOpen
    \/ RunRangeSearch
    \/ RunBatchedRead
    \/ RunLinearScan
    \/ \E impl \in Implementations : RunRemoveRange(impl)
    \/ RunDeleteRecords
    \/ RunTables
    \/ RunReturn

(***************************************************************************)
(* Page reads and writes one after the other                               *)
(*                                                                         *)
(* Both classes keep one std::fstream for all their page accesses and call *)
(* seekg / seekp and read / write on it without ever calling clear().      *)
(***************************************************************************)
\* page calls in a row on one instance
MaxPageCalls == 2

\* the methods of Database that read or write one block
DbPageCalls == {"getRecord", "deleteRecord", "readBlock", "writeBlock"}

\* one of the block methods on the open Database
DbPageCall(name, block_id, record_index) ==
    /\ db.is_open
    /\ dbGhost.other < MaxPageCalls
    /\ LET o == CASE name = "getRecord" ->
                       Database_getRecord(db, disk, block_id, record_index, EmptyRecord)
                  [] name = "deleteRecord" ->
                       Database_deleteRecord(db, disk, block_id, record_index)
                  [] name = "readBlock" -> Database_readBlock(db, disk, block_id)
                  [] OTHER -> Database_writeBlock(db, disk, block_id, CallerBlock(1))
       IN  /\ db' = o.d
           /\ disk' = o.f
           /\ dbOp' = [name |-> name, arg |-> <<block_id, record_index>>, ret |-> o.ret]
    /\ dbGhost' = OtherCall(dbGhost)
    /\ UNCHANGED <<idxVars, drv, codec, parser, run>>

\* the two page methods of BPTree, which every public method goes through
BtPageCalls == {"readNode", "writeNode"}

\* readNode(node_id, node) or writeNode(node_id, node) on the open BPTree
BtPageCall(name, node_id) ==
    /\ bt.is_open
    /\ btGhost.muts < MaxPageCalls
    /\ LET r == IF name = "readNode" THEN BPTree_readNode(IdxState, node_id, NewNode)
                ELSE BPTree_writeNode(IdxState, node_id, NewNode)
       IN  /\ bt' = r.s.t
           /\ ifile' = r.s.f
           /\ btOp' = Call(name, <<node_id>>, r.ret, FALSE)
    /\ btGhost' = [btGhost EXCEPT !.muts = @ + 1]
    /\ UNCHANGED <<heapVars, drv, codec, parser, run>>

(***************************************************************************)
(* Claims about the heap                                                   *)
(***************************************************************************)
\* record_count summed over the first n blocks of the file
RECURSIVE SumRecordCount(_, _)
SumRecordCount(blocks, n) ==
    IF n <= 0 \/ blocks = <<>> THEN 0
    ELSE Head(blocks).num_records + SumRecordCount(Tail(blocks), n - 1)

\* the last block of the heap is full and one more block would pass the cap
AtCapacity(d, f) ==
    /\ d.is_open
    /\ ~d.failbit
    /\ d.num_blocks > 0
    /\ d.num_blocks <= Len(f.blocks)
    /\ Block_isFull(f.blocks[d.num_blocks])
    /\ d.num_blocks * BLOCK_SIZE + METADATA_SIZE + BLOCK_SIZE > MAX_DATABASE_SIZE

C6_RoundTrip ==
    (dbOp.name = "getAllRecords" /\ dbGhost.phase = "reopened") =>
        /\ dbOp.ret = dbGhost.inserted
        /\ db.num_blocks = dbGhost.closeBlocks
        /\ db.num_records = dbGhost.closeRecords

C6_Witness ==
    /\ dbOp.name = "getAllRecords"
    /\ dbGhost.phase = "reopened"
    /\ Len(dbGhost.inserted) > MAX_RECORDS
    /\ dbGhost.inserted[1] # dbGhost.inserted[2]
    /\ dbOp.ret = dbGhost.inserted

\* C7: 8 + num_blocks * BLOCK_SIZE <= MAX_DATABASE_SIZE in every state the
\* public operations reach.
C7_CapacityInv ==
    METADATA_SIZE + db.num_blocks * BLOCK_SIZE <= MAX_DATABASE_SIZE

\* C8: an addRecord called when the last block is full and one more block
\* would pass the cap returns false, changes neither num_records nor
\* num_blocks, writes nothing, and leaves the stream usable: a read of an
\* existing block still succeeds.
C8_CapacityRefusal ==
    [][(dbOp'.name = "addRecord" /\ AtCapacity(db, disk)) =>
          /\ dbOp'.ret = FALSE
          /\ db'.num_records = db.num_records
          /\ db'.num_blocks = db.num_blocks
          /\ disk' = disk
          /\ Database_readBlock(db', disk', db'.num_blocks - 1).ret]_vars

C8_Witness ==
    /\ dbOp.name = "addRecord"
    /\ dbOp.ret = FALSE
    /\ AtCapacity(db, disk)

\* C9: at every close the num_records of the file header equals the sum of
\* record_count over blocks 0..num_blocks-1.
C9_HeaderSum ==
    (dbOp.name = "close" /\ disk.exists) =>
        disk.hdr_records = SumRecordCount(disk.blocks, disk.hdr_blocks)

(***************************************************************************)
(* Claims about the index.  The entries an index is expected to hold are   *)
(* those of btGhost; the entries it does hold are read from the pages of   *)
(* the file, from the root down.                                           *)
(***************************************************************************)
SeqToSet(seq) == {seq[i] : i \in 1..Len(seq)}

\* the pointers of the pairs whose key lies in [lo, hi]
PointersIn(pairs, lo, hi) ==
    {pairs[i][2] : i \in {j \in 1..Len(pairs) : lo <= pairs[j][1] /\ pairs[j][1] <= hi}}

\* the key a pointer was stored under
KeyOfPointer(pairs, ptr) ==
    pairs[CHOOSE i \in 1..Len(pairs) : pairs[i][2] = ptr][1]

\* the slots in use of a node
UsedKeys(node) == Min(Max(node.num_keys, 0), MAX_KEYS)

\* the <<key, pointer>> pairs of a leaf page
LeafEntries(node) ==
    [i \in 1..UsedKeys(node) |-> <<node.keys[i], DecodePointer(node.children[i])>>]

RECURSIVE SubtreeEntries(_, _, _)
\* the pairs of the leaves below the page node_id, left to right
SubtreeEntries(f, node_id, fuel) ==
    IF fuel = 0 \/ node_id \notin DOMAIN f.nodes THEN <<>>
    ELSE IF f.nodes[node_id].is_leaf THEN LeafEntries(f.nodes[node_id])
    ELSE ConcatAll([i \in 1..(UsedKeys(f.nodes[node_id]) + 1) |->
                      SubtreeEntries(f, f.nodes[node_id].children[i], fuel - 1)])

\* the pairs the index holds
TreeEntries(t, f) ==
    IF t.root_id = -1 THEN <<>> ELSE SubtreeEntries(f, t.root_id, MaxWalk)

RECURSIVE InternalNodes(_, _, _)
\* the ids of the internal pages from node_id down
InternalNodes(f, node_id, fuel) ==
    IF fuel = 0 \/ node_id \notin DOMAIN f.nodes THEN {}
    ELSE IF f.nodes[node_id].is_leaf THEN {}
    ELSE {node_id} \cup
         UNION {InternalNodes(f, f.nodes[node_id].children[i], fuel - 1) :
                  i \in 1..(UsedKeys(f.nodes[node_id]) + 1)}

\* the keys below children[i] of the node (i from 0)
KeysBelow(f, node, i) ==
    {e[1] : e \in SeqToSet(SubtreeEntries(f, node.children[i + 1], MaxWalk))}

\* keys[i-1] <= every key below children[i] < keys[i]
ValidSeparators(f, node) ==
    \A i \in 0..UsedKeys(node) :
        \A k \in KeysBelow(f, node, i) :
            /\ i > 0 => node.keys[i] <= k
            /\ i < UsedKeys(node) => k < node.keys[i + 1]

\* a bulk load on a freshly opened index, and nothing since
FreshlyLoaded ==
    /\ bt.is_open /\ ~bt.failbit
    /\ btGhost.opens = 1
    /\ btGhost.loaded # <<>>
    /\ btGhost.inserted = <<>>
    /\ btGhost.muts = 0

\* C1: after bulkLoad(S) on a freshly opened index, rangeSearch(lo, hi) with
\* lo <= hi returns exactly the pointers of the entries of S whose key lies in
\* [lo, hi], none missing and none extra, also when lo = hi and the
\* duplicates of that key span more than one leaf.
C1_RangeSearchExact ==
    (btOp.name = "rangeSearch" /\ FreshlyLoaded) =>
        /\ SeqToSet(btOp.ret) = PointersIn(btGhost.loaded, btOp.arg[1], btOp.arg[2])
        /\ Len(btOp.ret) = Cardinality(SeqToSet(btOp.ret))

\* C2: for a non-empty input S, bulkLoad(S) followed by a range search whose
\* bounds lie below and above every key returns exactly |S| pointers, in
\* ascending order of their keys.
C2_WholeDomain ==
    (/\ btOp.name = "rangeSearch"
     /\ FreshlyLoaded
     /\ \A i \in 1..Len(btGhost.loaded) :
          btOp.arg[1] < btGhost.loaded[i][1] /\ btGhost.loaded[i][1] < btOp.arg[2])
    =>
        /\ Len(btOp.ret) = Len(btGhost.loaded)
        /\ SeqToSet(btOp.ret) = PointersIn(btGhost.loaded, btOp.arg[1], btOp.arg[2])
        /\ \A i \in 1..Len(btOp.ret), j \in 1..Len(btOp.ret) :
             i < j => KeyOfPointer(btGhost.loaded, btOp.ret[i])
                        <= KeyOfPointer(btGhost.loaded, btOp.ret[j])

\* C3: on a tree built by bulkLoad and/or insert calls, search(k) returns
\* every pointer stored under k (all the duplicates) and no pointer stored
\* under another key.
C3_SearchComplete ==
    (btOp.name = "search" /\ bt.is_open /\ ~bt.failbit /\ btGhost.muts = 0) =>
        /\ SeqToSet(btOp.ret) =
             PointersIn(btGhost.loaded \o btGhost.inserted, btOp.arg[1], btOp.arg[1])
        /\ Len(btOp.ret) = Cardinality(SeqToSet(btOp.ret))

\* the pairs of entries with key < lo or key > hi
Survivors(entries, lo, hi) ==
    {e \in SeqToSet(entries) : e[1] < lo \/ e[1] > hi}

\* C4: after removeRange(lo, hi) the index holds exactly the entries it held
\* before with key < lo or key > hi; rangeSearch(lo, hi) then returns nothing,
\* and the number of levels is 1 when the survivors fit one leaf and at least 2
\* otherwise.
C4_RemoveRangeExact ==
    [][(/\ btOp'.name = "removeRange"
        /\ btGhost'.muts = btGhost.muts + 1
        /\ bt.is_open /\ ~bt.failbit)
       =>
        LET lo == btOp'.arg[1]
            hi == btOp'.arg[2]
            kept == Survivors(TreeEntries(bt, ifile), lo, hi)
            after == [t |-> bt', f |-> ifile']
        IN  /\ SeqToSet(TreeEntries(bt', ifile')) = kept
            /\ Len(TreeEntries(bt', ifile')) = Cardinality(kept)
            /\ BPTree_rangeSearch(after, lo, hi).ret = <<>>
            /\ IF Cardinality(kept) <= MAX_KEYS
               THEN BPTree_getNumLevels(after).ret = 1
               ELSE BPTree_getNumLevels(after).ret >= 2]_vars

\* C10: in every tree reached by bulkLoad, insert, remove and removeRange,
\* every internal node is a valid separator: keys[i-1] <= the smallest key
\* below children[i], and every key below children[i] is < keys[i].
C10_ValidSeparators ==
    (bt.is_open /\ ~bt.failbit /\ bt.root_id # -1) =>
        \A id \in InternalNodes(ifile, bt.root_id, MaxWalk) :
            ValidSeparators(ifile, ifile.nodes[id])

(***************************************************************************)
(* Claims about the shape of the tree                                      *)
(***************************************************************************)
\* the tree of an open, usable instance
TreeReadable == bt.is_open /\ ~bt.failbit /\ bt.root_id \in DOMAIN ifile.nodes

RECURSIVE LeafDepths(_, _, _, _)
\* the depths at which the leaves below node_id lie
LeafDepths(f, node_id, depth, fuel) ==
    IF fuel = 0 \/ node_id \notin DOMAIN f.nodes THEN {-1}
    ELSE IF f.nodes[node_id].is_leaf THEN {depth}
    ELSE UNION {LeafDepths(f, f.nodes[node_id].children[i], depth + 1, fuel - 1) :
                  i \in 1..(UsedKeys(f.nodes[node_id]) + 1)}

RECURSIVE LeavesBelow(_, _, _)
\* the ids of the leaves below node_id, left to right
LeavesBelow(f, node_id, fuel) ==
    IF fuel = 0 \/ node_id \notin DOMAIN f.nodes THEN <<>>
    ELSE IF f.nodes[node_id].is_leaf THEN <<node_id>>
    ELSE ConcatAll([i \in 1..(UsedKeys(f.nodes[node_id]) + 1) |->
                      LeavesBelow(f, f.nodes[node_id].children[i], fuel - 1)])

RECURSIVE LeafChain(_, _, _)
\* the ids met by following next_leaf from leaf_id; -2 closes a chain that
\* leaves the file or does not end
LeafChain(f, leaf_id, fuel) ==
    IF leaf_id = -1 THEN <<>>
    ELSE IF fuel = 0 \/ leaf_id \notin DOMAIN f.nodes THEN <<-2>>
    ELSE <<leaf_id>> \o LeafChain(f, f.nodes[leaf_id].next_leaf, fuel - 1)

\* the keys of the leaves of the sequence, in slot order
ChainKeys(f, leaves) ==
    ConcatAll([i \in 1..Len(leaves) |->
                 [j \in 1..UsedKeys(f.nodes[leaves[i]]) |-> f.nodes[leaves[i]].keys[j]]])

NonDecreasing(seq) == \A i \in 1..(Len(seq) - 1) : seq[i] <= seq[i + 1]

\* C11: in every reachable tree all the leaves lie at the same depth, and
\* following next_leaf from the leftmost leaf visits every leaf exactly once,
\* in non-decreasing key order, and ends with next_leaf = -1.
C11_LeafChain ==
    TreeReadable =>
        LET leaves == LeavesBelow(ifile, bt.root_id, MaxWalk)
        IN  /\ Cardinality(LeafDepths(ifile, bt.root_id, 0, MaxWalk)) = 1
            /\ LeafChain(ifile, leaves[1], 2 * MaxWalk) = leaves
            /\ NonDecreasing(ChainKeys(ifile, leaves))

\* the keys a leaf holds, keys[0..num_keys)
LeafKeys(node) == [j \in 1..UsedKeys(node) |-> node.keys[j]]

\* C12: after every completed public operation every leaf of the tree holds
\* at most MAX_KEYS keys, and its keys[0..num_keys) are sorted non-decreasing.
C12_LeafSorted ==
    TreeReadable =>
        \A id \in SeqToSet(LeavesBelow(ifile, bt.root_id, MaxWalk)) :
            /\ ifile.nodes[id].num_keys \in 0..MAX_KEYS
            /\ NonDecreasing(LeafKeys(ifile.nodes[id]))

\* the bound on num_keys alone
C12_LeafBounded ==
    TreeReadable =>
        \A id \in SeqToSet(LeavesBelow(ifile, bt.root_id, MaxWalk)) :
            ifile.nodes[id].num_keys \in 0..MAX_KEYS

\* C13: in every reachable state of an open index, root_id = -1 exactly when
\* the index holds no entries, and otherwise root_id is a node id in
\* [0, next_node_id); this covers the state right after a new index file was
\* opened and the state after all the entries were deleted.
C13_RootSentinel ==
    (bt.is_open /\ ~bt.failbit) =>
        /\ (bt.root_id = -1) <=> (TreeEntries(bt, ifile) = <<>>)
        /\ bt.root_id # -1 => bt.root_id \in 0..(bt.next_node_id - 1)

\* the range of root_id alone
C13_RootInRange ==
    (bt.is_open /\ ~bt.failbit /\ bt.root_id # -1) =>
        bt.root_id \in 0..(bt.next_node_id - 1)

\* the state after remove() deleted the last entry
C13_EmptiedByRemove ==
    (bt.is_open /\ ~bt.failbit /\ btOp.name = "remove" /\ btOp.ret = TRUE
       /\ TreeEntries(bt, ifile) = <<>>) =>
        bt.root_id = -1

\* the (key, pointer) pairs of the leaves of the sequence, in slot order
ChainEntries(f, leaves) ==
    ConcatAll([i \in 1..Len(leaves) |->
                 IF leaves[i] \in DOMAIN f.nodes THEN LeafEntries(f.nodes[leaves[i]]) ELSE <<>>])

\* the leaf reached from node_id through children[0]
RECURSIVE LeftmostLeaf(_, _, _)
LeftmostLeaf(f, node_id, fuel) ==
    IF fuel = 0 \/ node_id \notin DOMAIN f.nodes THEN -1
    ELSE IF f.nodes[node_id].is_leaf THEN node_id
    ELSE LeftmostLeaf(f, f.nodes[node_id].children[1], fuel - 1)

\* what a reader of the leaf chain gets
ChainScan(t, f) ==
    ChainEntries(f, LeafChain(f, LeftmostLeaf(f, t.root_id, MaxWalk), 2 * MaxWalk))

\* an index opened once that saw successful insert calls only
InsertOnly ==
    /\ bt.is_open /\ ~bt.failbit /\ btGhost.opens = 1
    /\ btGhost.loaded = <<>> /\ btGhost.muts = 0 /\ ~btGhost.removed
    /\ btOp.name = "insert" /\ btOp.ret = TRUE

\* C14: after any sequence of successful insert calls on a freshly opened
\* index the entries read along the leaf chain are exactly the inserted
\* (key, pointer) pairs, each key with its original pointer, in
\* non-decreasing key order.
C14_InsertKeepsEntries ==
    InsertOnly =>
        LET scan == ChainScan(bt, ifile)
        IN  /\ Len(scan) = Len(btGhost.inserted)
            /\ SeqToSet(scan) = SeqToSet(btGhost.inserted)
            /\ NonDecreasing([i \in 1..Len(scan) |-> scan[i][1]])

\* the same while no leaf was split
C14_BeforeSplit ==
    (InsertOnly /\ Len(btGhost.inserted) <= MAX_KEYS) =>
        LET scan == ChainScan(bt, ifile)
        IN  /\ Len(scan) = Len(btGhost.inserted)
            /\ SeqToSet(scan) = SeqToSet(btGhost.inserted)
            /\ NonDecreasing([i \in 1..Len(scan) |-> scan[i][1]])

\* a split where the new key is above every key of the leaf
C14_SplitUpperSlot ==
    (InsertOnly /\ Len(btGhost.inserted) = MAX_KEYS + 1
       /\ \A i \in 1..MAX_KEYS : btOp.arg[1] > btGhost.inserted[i][1]) =>
        SeqToSet(ChainScan(bt, ifile)) = SeqToSet(btGhost.inserted)

(***************************************************************************)
(* Claims about single steps of the index                                  *)
(***************************************************************************)
\* the leaf an insert of the key is routed to, -1 if there is none
RoutedLeaf(key) ==
    IF TreeReadable THEN BPTree_findLeaf(IdxState, key).ret ELSE -1

\* the pointer the next insert stores
NextPointer == HeapPointer(Len(btGhost.loaded) + Len(btGhost.inserted))

\* a successful insert step whose leaf held exactly `cnt` entries
InsertInto(cnt) ==
    /\ btOp'.name = "insert" /\ btOp'.ret = TRUE
    /\ bt'.is_open /\ ~bt'.failbit
    /\ RoutedLeaf(btOp'.arg[1]) \in DOMAIN ifile.nodes
    /\ ifile.nodes[RoutedLeaf(btOp'.arg[1])].is_leaf
    /\ ifile.nodes[RoutedLeaf(btOp'.arg[1])].num_keys = cnt

\* node `parent` lists old and new next to each other around the separator
ListsSplit(parent, old, new, sep) ==
    /\ ~parent.is_leaf
    /\ \E i \in 1..UsedKeys(parent) :
          parent.children[i] = old /\ parent.children[i + 1] = new /\ parent.keys[i] = sep

\* the links and the separator after a split of leaf `old`
SplitLinked(old) ==
    LET new == ifile'.nodes[old].next_leaf
    IN  /\ new \notin DOMAIN ifile.nodes /\ new \in DOMAIN ifile'.nodes
        /\ Len(LeavesBelow(ifile', bt'.root_id, MaxWalk))
             = Len(LeavesBelow(ifile, bt.root_id, MaxWalk)) + 1
        /\ ifile'.nodes[new].is_leaf
        /\ ifile'.nodes[new].next_leaf = ifile.nodes[old].next_leaf
        /\ \E p \in InternalNodes(ifile', bt'.root_id, MaxWalk) :
              ListsSplit(ifile'.nodes[p], old, new, ifile'.nodes[new].keys[1])

\* old and new leaf together hold the old entries and the new one
SplitKeepsEntries(old, key) ==
    LET new == ifile'.nodes[old].next_leaf
        both == LeafEntries(ifile'.nodes[old]) \o
                (IF new \in DOMAIN ifile'.nodes THEN LeafEntries(ifile'.nodes[new]) ELSE <<>>)
    IN  /\ Len(both) = Order + 1
        /\ SeqToSet(both) = SeqToSet(LeafEntries(ifile.nodes[old])) \cup {<<key, NextPointer>>}

\* C15: a leaf that holds exactly `order` entries is not split; the next
\* insert routed to it triggers exactly one leaf split, after which the old
\* and the new leaf together hold all order + 1 entries, old.next_leaf is the
\* new leaf, the new leaf has the old next_leaf, and the new leaf's first key
\* is the separator added to the parent.
C15_SplitAtOrder ==
    [][/\ InsertInto(Order - 1) =>
            LeavesBelow(ifile', bt'.root_id, MaxWalk) = LeavesBelow(ifile, bt.root_id, MaxWalk)
       /\ InsertInto(Order) =>
            /\ SplitLinked(RoutedLeaf(btOp'.arg[1]))
            /\ SplitKeepsEntries(RoutedLeaf(btOp'.arg[1]), btOp'.arg[1])]_vars

\* the split threshold, the links and the separator of C15 alone
C15_SplitLinks ==
    [][/\ InsertInto(Order - 1) =>
            LeavesBelow(ifile', bt'.root_id, MaxWalk) = LeavesBelow(ifile, bt.root_id, MaxWalk)
       /\ InsertInto(Order) => SplitLinked(RoutedLeaf(btOp'.arg[1]))]_vars

\* every child the internal node `id` lists names `id` as its parent
ChildrenPointBack(f, id) ==
    \A i \in 1..(UsedKeys(f.nodes[id]) + 1) :
        /\ f.nodes[id].children[i] \in DOMAIN f.nodes
        /\ f.nodes[f.nodes[id].children[i]].parent = id

\* C16: in every tree reachable by bulkLoad and insert, every non-root
\* node's parent field is the id of the internal node that lists it among
\* children[0..num_keys], and the root's parent is -1.
C16_ParentPointers ==
    (TreeReadable /\ ~btGhost.removed) =>
        /\ ifile.nodes[bt.root_id].parent = -1
        /\ \A id \in InternalNodes(ifile, bt.root_id, MaxWalk) : ChildrenPointBack(ifile, id)

\* the parent fields of a tree grown by insert alone
C16_InsertOnlyParents ==
    InsertOnly =>
        /\ ifile.nodes[bt.root_id].parent = -1
        /\ \A id \in InternalNodes(ifile, bt.root_id, MaxWalk) : ChildrenPointBack(ifile, id)

\* a completed removeRange step on an open, usable index
RemoveRangeStep ==
    /\ btOp'.name = "removeRange" /\ ~btOp'.hang
    /\ btGhost'.muts = btGhost.muts + 1
    /\ bt.is_open /\ ~bt.failbit

\* how many of the entries have lo <= key <= hi
CountInRange(entries, lo, hi) ==
    Cardinality({i \in 1..Len(entries) : lo <= entries[i][1] /\ entries[i][1] <= hi})

\* C17: the value removeRange(lo, hi) returns is the number of entries before
\* the call minus the number of entries after it, and that is the number of
\* entries with lo <= key <= hi before the call.
C17_RemoveRangeCount ==
    [][RemoveRangeStep =>
        /\ btOp'.ret = Len(TreeEntries(bt, ifile)) - Len(TreeEntries(bt', ifile'))
        /\ btOp'.ret = CountInRange(TreeEntries(bt, ifile), btOp'.arg[1], btOp'.arg[2])]_vars

\* C18: a removeRange whose range covers every entry of the index leaves
\* root_id = -1 and a number of levels of 0.
C18_RemoveAllEmpties ==
    [][(/\ RemoveRangeStep
        /\ TreeEntries(bt, ifile) # <<>>
        /\ CountInRange(TreeEntries(bt, ifile), btOp'.arg[1], btOp'.arg[2])
             = Len(TreeEntries(bt, ifile)))
       => /\ bt'.root_id = -1
          /\ BPTree_getNumLevels([t |-> bt', f |-> ifile']).ret = 0]_vars

\* the same for the removeRange of bptree.h alone
C18_RemoveAllEmpties_h ==
    [][(/\ RemoveRangeStep /\ btGhost'.impl = "h"
        /\ TreeEntries(bt, ifile) # <<>>
        /\ CountInRange(TreeEntries(bt, ifile), btOp'.arg[1], btOp'.arg[2])
             = Len(TreeEntries(bt, ifile)))
       => /\ bt'.root_id = -1
          /\ BPTree_getNumLevels([t |-> bt', f |-> ifile']).ret = 0]_vars

\* the entries with key < lo or key > hi, in the order of the sequence
SurvivorSeq(entries, lo, hi) ==
    SelectSeq(entries, LAMBDA e : e[1] < lo \/ e[1] > hi)

\* the instance after root_id = -1, next_node_id = 0 and a bulk load of data
ResetAndLoad(s, data) ==
    BPTree_bulkLoad([s EXCEPT !.t.root_id = -1, !.t.next_node_id = 0], data).s

\* the ids of the nodes of the tree below root_id
TreeNodeIds(t, f) ==
    IF t.root_id \notin DOMAIN f.nodes THEN {}
    ELSE InternalNodes(f, t.root_id, MaxWalk) \cup SeqToSet(LeavesBelow(f, t.root_id, MaxWalk))

\* C19: after a removeRange that leaves at least one survivor, next_node_id
\* (the value num_nodes() returns) is the number of nodes a bulk load of the
\* survivors allocates from next_node_id = 0, root_id is below next_node_id,
\* and the id the next createNode hands out is not the id of a node of the
\* rebuilt tree.
C19_RebuiltNodeCount ==
    [][(/\ RemoveRangeStep
        /\ SurvivorSeq(TreeEntries(bt, ifile), btOp'.arg[1], btOp'.arg[2]) # <<>>)
       => /\ bt'.next_node_id =
               ResetAndLoad(IdxState, SurvivorSeq(TreeEntries(bt, ifile),
                                                  btOp'.arg[1], btOp'.arg[2])).t.next_node_id
          /\ bt'.root_id < bt'.next_node_id
          /\ bt'.next_node_id \notin TreeNodeIds(bt', ifile')]_vars

\* a completed remove step on an open, usable index
RemoveStep ==
    /\ btOp'.name = "remove" /\ ~btOp'.hang
    /\ btGhost'.muts = btGhost.muts + 1
    /\ bt.is_open /\ ~bt.failbit

\* the key is the key of an entry of the tree
Stored(key) == \E i \in 1..Len(TreeEntries(bt, ifile)) : TreeEntries(bt, ifile)[i][1] = key

\* the step took exactly one entry with the key out of the tree
RemovedOne(key) ==
    LET before == TreeEntries(bt, ifile)
        after == TreeEntries(bt', ifile')
    IN  \E i \in 1..Len(before) :
           /\ before[i][1] = key
           /\ after = [j \in 1..(Len(before) - 1) |-> IF j < i THEN before[j] ELSE before[j + 1]]

\* C20: remove(key) for a key that is not stored returns false and leaves
\* root_id, next_node_id and every node unchanged; remove(key) for a stored
\* key returns true and removes exactly one entry with that key.
C20_RemoveOne ==
    [][RemoveStep =>
        IF Stored(btOp'.arg[1])
        THEN btOp'.ret = TRUE /\ RemovedOne(btOp'.arg[1])
        ELSE /\ btOp'.ret = FALSE
             /\ bt'.root_id = bt.root_id /\ bt'.next_node_id = bt.next_node_id
             /\ ifile'.nodes = ifile.nodes]_vars

\* the half of C20 about a key that is not stored
C20_RemoveMissing ==
    [][(RemoveStep /\ ~Stored(btOp'.arg[1])) =>
        /\ btOp'.ret = FALSE
        /\ bt'.root_id = bt.root_id /\ bt'.next_node_id = bt.next_node_id
        /\ ifile'.nodes = ifile.nodes]_vars

\* a remove that reports success took one entry with the key out
C20_RemoveReported ==
    [][(RemoveStep /\ btOp'.ret = TRUE) => RemovedOne(btOp'.arg[1])]_vars

(***************************************************************************)
(* Claims about single steps of the heap                                   *)
(***************************************************************************)
\* deleteRecord(b, i) on an open, usable heap with block b among the
\* num_blocks blocks and 0 <= i < record_count of block b
DeleteStep ==
    /\ dbOp'.name = "deleteRecord"
    /\ dbGhost'.other = dbGhost.other + 1
    /\ db.is_open /\ ~db.failbit
    /\ dbOp'.arg[1] < db.num_blocks /\ dbOp'.arg[1] < Len(disk.blocks)
    /\ dbOp'.arg[2] < disk.blocks[dbOp'.arg[1] + 1].num_records

\* the index in getAllRecords() of slot i of block b
PositionOf(f, b, i) == SumRecordCount(f.blocks, b) + i + 1

\* C21: deleteRecord(b, i) with 0 <= i < record_count of block b overwrites
\* slot i of block b with the all-zero record and changes nothing else: the
\* other slots, every record_count, num_blocks and num_records stay, and
\* getAllRecords returns as many records as before, with the zero record at
\* the deleted position.
C21_DeleteFrame ==
    [][DeleteStep =>
        LET b == dbOp'.arg[1]
            i == dbOp'.arg[2]
            before == Database_getAllRecords(db, disk).ret
            after == Database_getAllRecords(db', disk').ret
        IN  /\ dbOp'.ret = TRUE
            /\ disk'.blocks = [disk.blocks EXCEPT ![b + 1].data[i + 1] = EmptyRecord]
            /\ db'.num_blocks = db.num_blocks /\ db'.num_records = db.num_records
            /\ db'.is_open /\ ~db'.failbit
            /\ disk'.hdr_blocks = disk.hdr_blocks /\ disk'.hdr_records = disk.hdr_records
            /\ after = [before EXCEPT ![PositionOf(disk, b, i)] = EmptyRecord]]_vars

\* a record was deleted from a block that holds another one
C21_Witness ==
    /\ dbOp.name = "deleteRecord" /\ dbOp.ret = TRUE
    /\ db.is_open /\ ~db.failbit
    /\ dbOp.arg[1] < db.num_blocks /\ dbOp.arg[1] < Len(disk.blocks)
    /\ dbOp.arg[2] < disk.blocks[dbOp.arg[1] + 1].num_records
    /\ disk.blocks[dbOp.arg[1] + 1].data[dbOp.arg[2] + 1] = EmptyRecord
    /\ \E j \in 1..MAX_RECORDS : disk.blocks[dbOp.arg[1] + 1].data[j] # EmptyRecord
    /\ EmptyRecord \in SeqToSet(Database_getAllRecords(db, disk).ret)

\* C27: bulkLoad of an empty input returns false and leaves root_id,
\* next_node_id and the node pages unchanged.
C27_EmptyBulkLoad ==
    [][(btOp'.name = "bulkLoad" /\ btOp'.arg = 0) =>
        /\ btOp'.ret = FALSE
        /\ bt'.root_id = bt.root_id /\ bt'.next_node_id = bt.next_node_id
        /\ ifile'.nodes = ifile.nodes /\ ifile'.extent = ifile.extent]_vars

\* an empty bulk load was refused on an open index that has a root page
C27_Witness ==
    /\ btOp.name = "bulkLoad" /\ btOp.arg = 0 /\ btOp.ret = FALSE
    /\ bt.is_open /\ ~bt.failbit
    /\ bt.root_id \in DOMAIN ifile.nodes /\ bt.next_node_id > 0

\* a getRecord step
GetRecordStep ==
    /\ dbOp'.name = "getRecord"
    /\ dbGhost'.other = dbGhost.other + 1

\* block b is one of the num_blocks blocks and slot i one of its records
StoredAt(b, i) ==
    /\ 0 <= b /\ b < db.num_blocks /\ b < Len(disk.blocks)
    /\ 0 <= i /\ i < disk.blocks[b + 1].num_records

\* C28: getRecord(block_id, index) returns the all-zero record whenever the
\* block read fails (block_id outside [0, num_blocks)) or index is outside
\* [0, record_count) of the block, and the stored record otherwise; it never
\* modifies num_blocks, num_records or any block.
C28_GetRecord ==
    [][(GetRecordStep /\ db.is_open /\ ~db.failbit) =>
        /\ dbOp'.ret = IF StoredAt(dbOp'.arg[1], dbOp'.arg[2])
                       THEN disk.blocks[dbOp'.arg[1] + 1].data[dbOp'.arg[2] + 1]
                       ELSE EmptyRecord
        /\ db'.num_blocks = db.num_blocks /\ db'.num_records = db.num_records
        /\ disk' = disk]_vars

\* the part of C28 about indexes from record_count up, and the frame
C28_IndexAbove ==
    [][(GetRecordStep /\ db.is_open /\ ~db.failbit /\ dbOp'.arg[2] >= 0
          /\ dbOp'.arg[1] < db.num_blocks) =>
        /\ dbOp'.ret = IF StoredAt(dbOp'.arg[1], dbOp'.arg[2])
                       THEN disk.blocks[dbOp'.arg[1] + 1].data[dbOp'.arg[2] + 1]
                       ELSE EmptyRecord
        /\ db'.num_blocks = db.num_blocks /\ db'.num_records = db.num_records
        /\ disk' = disk]_vars

\* a negative index alone
C28_IndexBelow ==
    [][(GetRecordStep /\ db.is_open /\ ~db.failbit /\ dbOp'.arg[2] < 0
          /\ dbOp'.arg[1] < db.num_blocks) =>
        dbOp'.ret = EmptyRecord]_vars

(***************************************************************************)
(* Claims about the file header and the two components together            *)
(***************************************************************************)
\* C29: close is idempotent for the heap and for the index: in every state
\* reached by a close, a second close changes neither the file nor the
\* instance's metadata and writes no header.
C29_CloseIdempotent ==
    /\ dbOp.name = "close" =>
          Database_close(db, disk) = [d |-> db, f |-> disk]
    /\ btOp.name = "close" =>
          BPTree_close(IdxState) = IdxState

\* C29 (witness): the heap was closed with blocks in it, its header written
C29_Witness ==
    /\ dbOp.name = "close"
    /\ ~db.is_open
    /\ db.num_blocks > 1
    /\ disk.hdr_blocks = db.num_blocks

\* C29 (index side): the index was closed with a root written to the header
C29_IndexClosed ==
    /\ btOp.name = "close"
    /\ ~bt.is_open
    /\ bt.next_node_id > 1
    /\ ifile.hdr_next = bt.next_node_id

\* the 8 bytes at the start of the heap file / of the index file
HeapHeader(f) == <<f.hdr_blocks, f.hdr_records>>

IndexHeader(f) == <<f.hdr_root, f.hdr_next>>

\* the call of this step is close(), or the destructor of the instance
HeapCloses == dbOp'.name \in {"close", "new"} /\ db.is_open /\ ~db'.is_open

IndexCloses == btOp'.name \in {"close", "new"} /\ bt.is_open /\ ~bt'.is_open

\* the pages that a call on the open instance, its stream not failed, reports
\* as written are in the file after the step
HeapPagesWritten ==
    /\ (db.is_open /\ ~db.failbit /\ dbOp'.name = "addRecord" /\ dbOp'.ret) =>
          /\ Len(disk'.blocks) >= db'.num_blocks
          /\ LET b == disk'.blocks[db'.num_blocks]
             IN  b.num_records > 0 /\ b.data[b.num_records] = 1
    /\ (db.is_open /\ ~db.failbit /\ dbOp'.name = "addBlock" /\ dbOp'.ret # -1) =>
          /\ Len(disk'.blocks) >= db'.num_blocks
          /\ db'.num_blocks = dbOp'.ret + 1
          /\ disk'.blocks[db'.num_blocks].num_records = dbOp'.arg[1]
    /\ (db.is_open /\ ~db.failbit /\ dbOp'.name = "deleteRecord" /\ dbOp'.ret) =>
          disk'.blocks[dbOp'.arg[1] + 1].data[dbOp'.arg[2] + 1] = EmptyRecord

IndexPagesWritten ==
    /\ (bt.is_open /\ ~bt.failbit /\ btOp'.name \in {"insert", "bulkLoad"} /\ btOp'.ret) =>
          /\ bt'.root_id \in DOMAIN ifile'.nodes
          /\ \A id \in bt.next_node_id .. bt'.next_node_id - 1 :
                id \in DOMAIN ifile'.nodes
          /\ ifile'.nodes # ifile.nodes
    /\ (bt.is_open /\ ~bt.failbit /\ btOp'.name = "remove" /\ btOp'.ret) => ifile'.nodes # ifile.nodes
    /\ (bt.is_open /\ ~bt.failbit /\ btOp'.name = "removeRange" /\ btOp'.ret > 0
          /\ bt'.root_id # -1) => ifile'.nodes # ifile.nodes

\* C22: between open and close no call writes the file header: the header
\* of an existing heap or index file changes only in a step that closes the
\* instance, and then to the instance's metadata (num_blocks, num_records /
\* root_id, next_node_id); addRecord, addBlock, deleteRecord, insert,
\* bulkLoad, remove and removeRange leave it as it was after open, while the
\* pages of a call of theirs that succeeds on a usable stream are in the file
\* after the same step.
C22_HeaderOnlyAtClose ==
    [][/\ (disk.exists /\ HeapHeader(disk') # HeapHeader(disk)) =>
             /\ HeapCloses
             /\ HeapHeader(disk') = <<db.num_blocks, db.num_records>>
       /\ (ifile.exists /\ IndexHeader(ifile') # IndexHeader(ifile)) =>
             /\ IndexCloses
             /\ IndexHeader(ifile') = <<bt.root_id, bt.next_node_id>>
       /\ HeapPagesWritten
       /\ IndexPagesWritten]_vars

\* C22 (witness): addRecord has put a second block into the open heap file
\* while the header still holds the counts read at open
C22_Witness ==
    /\ dbOp.name = "addRecord"
    /\ db.is_open /\ ~db.failbit
    /\ Len(disk.blocks) = db.num_blocks
    /\ db.num_blocks > 1
    /\ disk.hdr_blocks = 0 /\ disk.hdr_records = 0

\* C22 (index side): insert has split the root of the open index while the
\* header still holds the root_id and next_node_id written at open
C22_IndexStale ==
    /\ btOp.name = "insert"
    /\ bt.is_open /\ ~bt.failbit
    /\ bt.root_id # 0
    /\ bt.root_id \in DOMAIN ifile.nodes
    /\ ifile.hdr_root = 0 /\ ifile.hdr_next = 1

\* C22 (close on a usable stream): a close of an instance whose stream has
\* not failed leaves the header equal to the metadata
C22_CloseWritesHeader ==
    [][/\ (HeapCloses /\ ~db.failbit) =>
             HeapHeader(disk') = <<db.num_blocks, db.num_records>>
       /\ (IndexCloses /\ ~bt.failbit) =>
             IndexHeader(ifile') = <<bt.root_id, bt.next_node_id>>]_vars

\* C22 (every close): as above, also when a read or write has failed before
C22_EveryCloseWritesHeader ==
    [][/\ HeapCloses => HeapHeader(disk') = <<db.num_blocks, db.num_records>>
       /\ IndexCloses => IndexHeader(ifile') = <<bt.root_id, bt.next_node_id>>]_vars

(***************************************************************************)
(* Claims about the index file across instances                            *)
(***************************************************************************)
\* the instance is closed, destroyed, and a new instance opens the same file
Reopened(s) == BPTree_open([t |-> BPTree_new, f |-> BPTree_close(s).f]).s

\* search and rangeSearch return on s what they return on r, for every key
\* and every range
SameAnswers(s, r) ==
    /\ \A key \in KeyValues :
          BPTree_search(r, key).ret = BPTree_search(s, key).ret
    /\ \A min_key \in KeyValues, max_key \in KeyValues :
          min_key <= max_key =>
             BPTree_rangeSearch(r, min_key, max_key).ret
                = BPTree_rangeSearch(s, min_key, max_key).ret

\* C24: the index persists across instances: for an index opened once and
\* built by bulkLoad and / or insert, close followed by open in a new instance gives
\* the same root_id and next_node_id, and every search and rangeSearch
\* returns what it returned on the instance that was closed.
C24_RoundTrip ==
    (bt.is_open /\ btGhost.opens = 1 /\ Running /\ ~btGhost.removed) =>
        LET r == Reopened(IdxState)
        IN  /\ r.t.root_id = bt.root_id
            /\ r.t.next_node_id = bt.next_node_id
            /\ SameAnswers(IdxState, r)

\* C24 (witness): a second instance has opened an index of several nodes
\* that the first one bulk-loaded and closed
C24_Witness ==
    /\ btGhost.opens = 2
    /\ btOp.name = "open"
    /\ bt.is_open /\ ~bt.failbit
    /\ Len(btGhost.loaded) >= 3
    /\ bt.root_id > 0
    /\ BPTree_search(IdxState, btGhost.loaded[1][1]).ret # <<>>

\* C24 (stream usable): the round trip of C24 for an index on which no read
\* or write has failed
C24_RoundTripNoFailure ==
    (bt.is_open /\ ~bt.failbit /\ btGhost.opens = 1 /\ Running /\ ~btGhost.removed) =>
        LET r == Reopened(IdxState)
        IN  /\ r.t.root_id = bt.root_id
            /\ r.t.next_node_id = bt.next_node_id
            /\ SameAnswers(IdxState, r)

\* C24 (after a failure): the new instance sees the root_id and next_node_id
\* of the instance that was closed, also when a read or write has failed on it
C24_MetadataKept ==
    (bt.is_open /\ btGhost.opens = 1 /\ Running /\ ~btGhost.removed) =>
        LET r == Reopened(IdxState)
        IN  /\ r.t.root_id = bt.root_id
            /\ r.t.next_node_id = bt.next_node_id

(***************************************************************************)
(* Claims about the driver                                                 *)
(***************************************************************************)
\* C23: at no point of the driver's run (task1, task2, task3 with its call
\* of generateResultsTables) are two Database instances, or two BPTree
\* instances, open on the same file path.
C23_OneInstancePerPath ==
    \A a \in drv.open, b \in drv.open : a.path = b.path => a = b

\* C23 (before the result tables): until task3 calls generateResultsTables
\* no path is open in two instances
C23_UntilTables ==
    drv.pc \notin {"tables.write", "tables.return"} => C23_OneInstancePerPath

(***************************************************************************)
(* Claims about the I/O tallies                                            *)
(***************************************************************************)
\* the tallies of the heap instance d / of the index instance t agree
HeapTallies(d) ==
    /\ d.data_blocks_accessed = d.total_data_block_ios
    /\ Cardinality(d.unique_data_blocks) <= d.total_data_block_ios

IndexTallies(t) ==
    /\ t.index_nodes_accessed = t.total_index_node_ios
    /\ Cardinality(t.unique_index_nodes) <= t.total_index_node_ios

\* from d to e (from t to u) one access of page id was counted
BlockCounted(d, e, id) ==
    /\ e.data_blocks_accessed = d.data_blocks_accessed + 1
    /\ e.total_data_block_ios = d.total_data_block_ios + 1
    /\ e.unique_data_blocks = d.unique_data_blocks \cup {id}

NodeCounted(t, u, id) ==
    /\ u.index_nodes_accessed = t.index_nodes_accessed + 1
    /\ u.total_index_node_ios = t.total_index_node_ios + 1
    /\ u.unique_index_nodes = t.unique_index_nodes \cup {id}

\* the node ids a read or write is tried with: one below the file, one above
NodeIds == -1..ifile.extent

C25_IndexCounted ==
    /\ btOp.name = "rangeSearch"
    /\ bt.total_index_node_ios > Cardinality(bt.unique_index_nodes)
    /\ Cardinality(bt.unique_index_nodes) > 1

\* the leaves of the tree that hold at least one key in [min_key, max_key]
LeavesInRange(f, root_id, min_key, max_key) ==
    {id \in SeqToSet(LeavesBelow(f, root_id, MaxWalk)) :
        \E j \in 1..UsedKeys(f.nodes[id]) :
           min_key <= f.nodes[id].keys[j] /\ f.nodes[id].keys[j] <= max_key}

\* rangeSearch on a bulk-loaded tree, directly after resetIOCounters
SearchAfterReset ==
    /\ btOp.name = "resetIOCounters"
    /\ btOp'.name = "rangeSearch"
    /\ btGhost.loaded # <<>>
    /\ btGhost.inserted = <<>>
    /\ btGhost.muts = 0

\* C26: after resetIOCounters, a rangeSearch(lo, hi) on a bulk-loaded tree
\* touches at most num_levels() + R distinct index nodes, R the number of
\* leaves that hold at least one key in [lo, hi].
C26_RangeSearchNodes ==
    [][SearchAfterReset =>
          Cardinality(bt'.unique_index_nodes)
             <= BPTree_getNumLevels(IdxState).ret
                  + Cardinality(LeavesInRange(ifile, bt.root_id,
                                              btOp'.arg[1], btOp'.arg[2]))]_vars

\* C26 (one more leaf): the bound of C26 with one more node, the leaf at
\* which the scan starts or stops without a key in the range
C26_OneMoreLeaf ==
    [][SearchAfterReset =>
          Cardinality(bt'.unique_index_nodes)
             <= BPTree_getNumLevels(IdxState).ret
                  + Cardinality(LeavesInRange(ifile, bt.root_id,
                                              btOp'.arg[1], btOp'.arg[2])) + 1]_vars

(***************************************************************************)
(* Claims about the pointer encoding                                       *)
(***************************************************************************)
\* the pointer lies in a heap file within the cap
HeapFilePointer(ptr) ==
    /\ 0 <= ptr.block_id /\ ptr.block_id < HEAP_BLOCKS
    /\ 0 <= ptr.record_index /\ ptr.record_index < BLOCK_RECORDS

\* C30: the leaf pointer encoding round-trips: for RecordPointers (b, i) with
\* 0 <= b < 25600 and 0 <= i < 92, block_id * 10000 + record_index does not
\* overflow a 32-bit signed int, distinct pointers get distinct encodings,
\* and (encoded / 10000, encoded % 10000) is the pointer again.
C30_PointerRoundTrip ==
    (HeapFilePointer(codec.p) /\ HeapFilePointer(codec.q)) =>
        /\ EncodeFits(codec.p) /\ EncodeFits(codec.q)
        /\ codec.stage \in {"encoded", "decoded"} =>
              /\ codec.ep = codec.p.block_id * POINTER_FACTOR + codec.p.record_index
              /\ codec.ep <= INT_MAX
              /\ codec.p # codec.q => codec.ep # codec.eq
        /\ codec.stage = "decoded" =>
              /\ codec.dp = codec.p
              /\ codec.dq = codec.q

\* C30 (witness): the last slot of the last block and the first slot of the
\* same block went through the encoding and came back
C30_Witness ==
    /\ codec.stage = "decoded"
    /\ codec.p = RecordPointer(HEAP_BLOCKS - 1, BLOCK_RECORDS - 1)
    /\ codec.q = RecordPointer(HEAP_BLOCKS - 1, 0)
    /\ codec.dp = codec.p
    /\ codec.ep = 255990091

(***************************************************************************)
(* Claims about the ingester                                               *)
(***************************************************************************)
\* the text is a whole number: an optional sign and digits, nothing else
IsIntText(text) ==
    LET digits == IF Len(text) > 0 /\ text[1] \in {"-", "+"} THEN Tail(text) ELSE text
    IN  Len(digits) > 0 /\ \A i \in 1..Len(digits) : digits[i] \in DigitChars

\* the text is a decimal number: an optional sign, digits with at most one point
IsFloatText(text) ==
    LET digits == IF Len(text) > 0 /\ text[1] \in {"-", "+"} THEN Tail(text) ELSE text
    IN  /\ \E i \in 1..Len(digits) : digits[i] \in DigitChars
        /\ \A i \in 1..Len(digits) : digits[i] \in DigitChars \cup {"."}
        /\ Cardinality({i \in 1..Len(digits) : digits[i] = "."}) <= 1

\* 9 tab-separated fields whose numeric fields are numbers
WellFormed(row) ==
    /\ Len(row) = FIELDS
    /\ \A i \in {2, 3, 7, 8, 9} : IsIntText(row[i])
    /\ \A i \in {4, 5, 6} : IsFloatText(row[i])

\* team_id > 0, pts >= 0, 0.0 <= ft_pct <= 1.0 and a non-empty date, on the
\* numbers that the fields of a well-formed row denote
RowAccepted(row) ==
    /\ WellFormed(row)
    /\ Parser_stoi(row[2]).value > 0
    /\ Parser_stoi(row[3]).value >= 0
    /\ FloatLessEq(Zero, Parser_stof(row[5]).value)
    /\ FloatLessEq(Parser_stof(row[5]).value, One)
    /\ row[1] # <<>>

\* a data line was read and parseLine and isValidRecord were applied to it
DataLineRead == parser.stage = "reading" /\ parser.lines > 0

\* C31: parseFile keeps the record of a data line if and only if the line is
\* well formed (9 tab-separated fields, numeric fields that are numbers) and
\* has team_id > 0, pts >= 0, 0.0 <= ft_pct <= 1.0 and a non-empty date;
\* every other line adds nothing to the records that task1 stores.
C31_KeptIffWellFormed ==
    DataLineRead => (parser.pushed <=> RowAccepted(parser.row))

\* C31, the direction that holds: a well-formed line that satisfies the four
\* conditions is kept, with the numbers of its fields.
C31_AcceptedKept ==
    (DataLineRead /\ RowAccepted(parser.row)) =>
        /\ parser.pushed
        /\ LET record == parser.records[Len(parser.records)]
           IN  /\ record.game_date = parser.row[1]
               /\ record.team_id_home = Parser_stoi(parser.row[2]).value
               /\ record.pts_home = Parser_stoi(parser.row[3]).value
               /\ record.ft_pct_home = Parser_stof(parser.row[5]).value

\* C31, on the records instead of the lines: every record kept has
\* team_id > 0, pts >= 0, 0.0 <= ft_pct <= 1.0 and a non-empty date, and a
\* line of fewer than 9 fields is never kept.
C31_KeptValid ==
    /\ \A i \in 1..Len(parser.records) :
          LET record == parser.records[i]
          IN  /\ record.team_id_home > 0 /\ record.pts_home >= 0
              /\ FloatLessEq(Zero, record.ft_pct_home)
              /\ FloatLessEq(record.ft_pct_home, One)
              /\ record.game_date # <<>>
    /\ (DataLineRead /\ Len(parser.row) < FIELDS) => ~parser.pushed

\* C31, the lines kept although they are not well formed: a numeric field
\* that is no number, or more than 9 fields.
C31_MalformedKept ==
    DataLineRead /\ parser.pushed /\ ~WellFormed(parser.row)

(***************************************************************************)
(* Claims about the shape of a bulk-loaded tree                            *)
(***************************************************************************)
\* the number of nodes of each level, leaves first: k nodes are grouped
\* `order` at a time until one node remains
RECURSIVE LevelSizes(_)
LevelSizes(k) ==
    IF k <= 1 THEN <<k>> ELSE <<k>> \o LevelSizes(CeilDiv(k, Order))

\* the id of the first node of level l: the levels are created one after
\* the other, each from left to right
LevelBase(sizes, l) == SumSeq(SubSeq(sizes, 1, l - 1))

\* bulkLoad has just returned true on a freshly opened index
JustLoaded == btOp.name = "bulkLoad" /\ btOp.ret /\ FreshlyLoaded

\* C32: bulkLoad of n > 0 entries creates ceil(n / order) leaves, each with
\* exactly `order` entries except possibly the last, chained left to right;
\* every upper level groups up to `order` nodes of the level below under one
\* parent, a parent of c children holding c - 1 keys, until one node remains,
\* which is the root; getNumLevels returns 1 + the number of grouping rounds.
\* The new nodes take the ids after the empty root page that open wrote.
C32_BulkShape ==
    JustLoaded =>
        LET n == Len(btGhost.loaded)
            sorted == SortPairs(btGhost.loaded)
            sizes == LevelSizes(CeilDiv(n, Order))
            leaves == sizes[1]
            first == bt.next_node_id - SumSeq(sizes)
        IN  /\ first = 1
            /\ bt.root_id = bt.next_node_id - 1
            /\ DOMAIN ifile.nodes = 0..(bt.next_node_id - 1)
            /\ \A id \in 0..(leaves - 1) :
                  LET leaf == ifile.nodes[first + id]
                  IN  /\ leaf.is_leaf
                      /\ leaf.num_keys = IF id < leaves - 1 THEN Order ELSE n - id * Order
                      /\ leaf.next_leaf = IF id < leaves - 1 THEN first + id + 1 ELSE -1
                      /\ \A i \in 1..leaf.num_keys :
                            /\ leaf.keys[i] = sorted[id * Order + i][1]
                            /\ leaf.children[i] = EncodePointer(sorted[id * Order + i][2])
            /\ \A l \in 2..Len(sizes) : \A j \in 0..(sizes[l] - 1) :
                  LET parent == ifile.nodes[first + LevelBase(sizes, l) + j]
                      c == Min(Order, sizes[l - 1] - j * Order)
                  IN  /\ ~parent.is_leaf
                      /\ parent.num_keys = c - 1
                      /\ \A i \in 0..(c - 1) :
                            GetChild(parent, i) =
                                first + LevelBase(sizes, l - 1) + j * Order + i
            /\ BPTree_getNumLevels(IdxState).ret = Len(sizes)

\* a bulk load of more than order * order entries: the leaves need two
\* parents and these a root above them, three levels
C32_Witness ==
    /\ JustLoaded
    /\ Len(btGhost.loaded) > Order * Order
    /\ BPTree_getNumLevels(IdxState).ret = 3
    /\ ifile.nodes[bt.root_id].num_keys = 1
    /\ ifile.nodes[bt.root_id - 1].num_keys = 0

(***************************************************************************)
(* Claims about the root after a point delete                              *)
(***************************************************************************)
\* the root page of a readable tree
RootNode == ifile.nodes[bt.root_id]

\* remove has just returned true on an open index whose root page exists
Removed ==
    /\ btOp.name = "remove" /\ btOp.ret = TRUE
    /\ bt.is_open /\ ~bt.failbit /\ ~bt.crashed
    /\ bt.root_id \in DOMAIN ifile.nodes

\* C33: no state after a remove has an internal root with zero keys: when
\* the delete, with the merges it performs, takes the last key out of the
\* root, the root's single remaining child has become the root.
C33_NoEmptyInternalRoot ==
    Removed => ~(~RootNode.is_leaf /\ RootNode.num_keys = 0)

\* C33 for the remove of bptree.cpp, which merges nothing: the root keeps
\* its keys, so no remove leaves an internal root without keys.
C33_NoEmptyInternalRoot_cpp ==
    (Removed /\ btGhost.impl = "cpp") => ~(~RootNode.is_leaf /\ RootNode.num_keys = 0)

\* C33, the merge of bptree.h at the root: the last separator was taken out
\* of the root, which is still the root, and the deleted sibling is still
\* its second child.
C33_MergedUnderRoot ==
    /\ Removed /\ btGhost.impl = "h"
    /\ ~RootNode.is_leaf /\ RootNode.num_keys = 0
    /\ GetChild(RootNode, 0) \in DOMAIN ifile.nodes
    /\ ifile.nodes[GetChild(RootNode, 0)].parent = bt.root_id

\* the positions of main
RunPcs == {"main", "failed", "task1", "task2", "stopped", "opened", "searched", "fetched",
           "scanned", "removed", "deleted", "tables", "returned"}

\* the block ids of the pointers that rangeSearch returned to task3
ResultBlocks == {run.bptree_results[i].block_id : i \in 1..Len(run.bptree_results)}

\* C34: when the batched scan of the driver's indexed range query has ended,
\* the heap's total I/O count since the reset equals its unique-block count,
\* and both equal the number of distinct block ids in the range-search result
C34_BatchedScanReadsEachBlockOnce ==
    run.pc = "fetched" =>
        /\ db.total_data_block_ios = Cardinality(db.unique_data_blocks)
        /\ db.total_data_block_ios = Cardinality(ResultBlocks)
        /\ db.unique_data_blocks = ResultBlocks
        /\ db.data_blocks_accessed = db.total_data_block_ios

\* C34: the batched scan has ended on a result with two pointers into one
\* block and pointers into another block
C34_Witness ==
    /\ run.pc = "fetched"
    /\ Cardinality(ResultBlocks) >= 2
    /\ Len(run.bptree_results) > Cardinality(ResultBlocks)
    /\ Len(run.deleted_records) = Len(run.bptree_results)

\* what printStatistics of task3's own BPTree reports in the current state
TreeLeft == BPTree_printStatistics(IdxState).ret

\* C35: the "updated statistics" that generateResultsTables reports are those
\* of the tree that removeRange left: its BPTree instance observes the
\* root_id and the next_node_id that removeRange produced in task3's instance
C35_TablesSeeTreeLeft ==
    run.pc = "tables" =>
        /\ run.tables.root_id = bt.root_id
        /\ run.tables.num_nodes = bt.next_node_id
        /\ run.tables.num_levels = TreeLeft.num_levels
        /\ run.tables.root_keys = TreeLeft.root_keys

\* C35 for bptree.cpp, whose removeRange removes key by key
C35_TablesSeeTreeLeft_cpp ==
    (run.pc = "tables" /\ run.impl = "cpp") => 
        /\ run.tables.root_id = bt.root_id
        /\ run.tables.num_nodes = bt.next_node_id
        /\ run.tables.num_levels = TreeLeft.num_levels
        /\ run.tables.root_keys = TreeLeft.root_keys

\* C35: the tables were written after a removeRange that rebuilt the tree
\* under a new root, and report the root of the tree that task2 built
C35_StaleStatistics ==
    /\ run.pc = "tables"
    /\ run.deleted_count > 0
    /\ bt.root_id # -1
    /\ run.tables.root_id # bt.root_id
    /\ run.tables.root_id = ifile.hdr_root

\* the pair (ft_pct_home, slot) of every slot of the heap file that holds a
\* record, i.e. that no deleteRecord has zeroed
HeapSlots ==
    {<<FtPctOf(disk.blocks[b].data[i]), RecordPointer(b - 1, i - 1)>> :
        <<b, i>> \in {<<b, i>> \in (1..Len(disk.blocks)) \X (1..MAX_RECORDS) :
                         /\ i <= disk.blocks[b].num_records
                         /\ disk.blocks[b].data[i] # EmptyRecord}}

\* the delete path of task3 has run: removeRange, then the deleteRecord loop
DeletePathDone == run.pc = "deleted"

\* the entries that the index of task3 holds
IndexLeft == TreeEntries(bt, ifile)

\* C36: after the delete path of the driver for [0.9, 1.0] on an index that
\* was bulk-built from the heap, the entries of the index are the pairs of
\* exactly the heap slots that were not zeroed, and a scan of the whole heap
\* finds no record with ft_pct_home in the range
C36_IndexMatchesHeap ==
    DeletePathDone =>
        /\ SeqToSet(IndexLeft) = HeapSlots
        /\ Len(IndexLeft) = Cardinality(HeapSlots)
        /\ \A e \in HeapSlots : ~(QUERY_MIN <= e[1] /\ e[1] <= QUERY_MAX)

\* C36 for the removeRange of bptree.h, which rebuilds the tree
C36_IndexMatchesHeap_h ==
    (DeletePathDone /\ run.impl = "h") =>
        /\ SeqToSet(IndexLeft) = HeapSlots
        /\ Len(IndexLeft) = Cardinality(HeapSlots)

\* C36: the heap half of the claim
C36_HeapScanFindsNone ==
    DeletePathDone => \A e \in HeapSlots : ~(QUERY_MIN <= e[1] /\ e[1] <= QUERY_MAX)

\* C36: the delete path has run and the index still holds an entry whose
\* heap slot was zeroed
C36_DanglingEntry ==
    /\ DeletePathDone
    /\ \E i \in 1..Len(IndexLeft) : IndexLeft[i] \notin HeapSlots

\* the indexes of keys[] and children[] that insertIntoLeaf(leaf_id, key, ptr)
\* uses on the leaf it has read: the search for the position, the shifting
\* loop and the two assignments
InsertIntoLeafTouched(leaf, key) ==
    LET i == LeafInsertPos(leaf, key, 0)
        shifted == (i + 1)..leaf.num_keys
    IN  [keys |-> {k \in 0..i : k < leaf.num_keys} \cup shifted
                  \cup {j - 1 : j \in shifted} \cup {i},
         children |-> shifted \cup {j - 1 : j \in shifted} \cup {i}]

\* the indexes that splitLeaf uses on a leaf of num_keys entries and on the
\* new leaf: the copying loop from mid and new_leaf.keys[0]
SplitLeafTouched(num_keys) ==
    LET mid == num_keys \div 2
        copied == (mid..(num_keys - 1)) \cup (0..(num_keys - mid - 1))
    IN  [keys |-> copied \cup {0}, children |-> copied]

\* the indexes that insert(key, ptr) uses at the leaf level in the state s
InsertTouched(s, key) ==
    IF s.t.root_id = -1 THEN [keys |-> {0}, children |-> {0}]
    ELSE LET fl == BPTree_findLeaf(s, key)
             r == BPTree_readNode(fl.s, fl.ret, NewNode)
         IN  IF fl.ret = -1 \/ ~r.ret THEN [keys |-> {}, children |-> {}]
             ELSE LET ins == InsertIntoLeafTouched(r.node, key)
                      split == SplitLeafTouched(r.node.num_keys + 1)
                  IN  IF r.node.num_keys < Order THEN ins
                      ELSE [keys |-> ins.keys \cup split.keys,
                            children |-> ins.children \cup split.children]

RECURSIVE RangeSearchTouched(_, _, _, _, _)
\* the indexes that the loop of rangeSearch uses from the leaf leaf_id on:
\* keys[i] and children[i] for i < num_keys, then keys[num_keys - 1]
RangeSearchTouched(s, leaf_id, buf, max_key, fuel) ==
    IF leaf_id = -1 THEN [keys |-> {}, children |-> {}]
    ELSE LET r == BPTree_readNode(s, leaf_id, buf)
             leaf == r.node
             rest == IF GetKey(leaf, leaf.num_keys - 1) > max_key \/ fuel = 0
                     THEN [keys |-> {}, children |-> {}]
                     ELSE RangeSearchTouched(r.s, leaf.next_leaf, leaf, max_key, fuel - 1)
         IN  IF ~r.ret THEN [keys |-> {}, children |-> {}]
             ELSE [keys |-> (0..(leaf.num_keys - 1)) \cup {leaf.num_keys - 1}
                            \cup rest.keys,
                   children |-> (0..(leaf.num_keys - 1)) \cup rest.children]

\* the indexes that rangeSearch(min_key, max_key) uses in the leaves
RangeSearchAllTouched(s, min_key, max_key) ==
    LET fl == BPTree_findLeaf(s, min_key)
    IN  RangeSearchTouched(fl.s, fl.ret, NewNode, max_key, MaxWalk)

\* every index lies inside the declared arrays keys[MAX_KEYS] and
\* children[MAX_KEYS + 1]
InBounds(touched) ==
    /\ \A j \in touched.keys : ~KeyIndexOut(j)
    /\ \A j \in touched.children : ~ChildIndexOut(j)

\* the step is a call of insert / of rangeSearch
InsertStep == btOp'.name = "insert"

RangeSearchStep == btOp'.name = "rangeSearch"

\* C37: during insert and rangeSearch every access to keys stays within
\* [0, MAX_KEYS - 1] and every access to children within [0, MAX_KEYS],
\* including an insert into a leaf that holds order keys and a range search
\* over a leaf with num_keys = 0
C37_AccessesInBounds ==
    [][/\ InsertStep => InBounds(InsertTouched(IdxState, btOp'.arg[1]))
       /\ RangeSearchStep =>
              InBounds(RangeSearchAllTouched(IdxState, btOp'.arg[1], btOp'.arg[2]))]_vars

\* C37, insert alone
C37_InsertInBounds ==
    [][InsertStep => InBounds(InsertTouched(IdxState, btOp'.arg[1]))]_vars

\* C37, rangeSearch alone
C37_RangeSearchInBounds ==
    [][RangeSearchStep =>
          InBounds(RangeSearchAllTouched(IdxState, btOp'.arg[1], btOp'.arg[2]))]_vars

\* C37: an insert that does not split the leaf stays inside the arrays
C37_InsertBelowOrderInBounds ==
    [][(InsertStep /\ bt'.next_node_id = bt.next_node_id)
          => InBounds(InsertTouched(IdxState, btOp'.arg[1]))]_vars

\* C37: a range search on a tree without an empty leaf stays inside the arrays
C37_RangeSearchFilledInBounds ==
    [][(RangeSearchStep /\ \A n \in DOMAIN ifile.nodes : ifile.nodes[n].num_keys > 0)
          => InBounds(RangeSearchAllTouched(IdxState, btOp'.arg[1], btOp'.arg[2]))]_vars

\* C37: an insert has split a leaf that held order keys
C37_FullLeafInsert ==
    /\ btOp.name = "insert" /\ btOp.ret = TRUE
    /\ btGhost.loaded = <<>> /\ Len(btGhost.inserted) = Order + 1
    /\ bt.next_node_id = 3

\* C37: a range search has run on an index whose only leaf is empty
C37_EmptyLeafSearch ==
    /\ btOp.name = "rangeSearch"
    /\ bt.root_id = 0 /\ bt.next_node_id = 1
    /\ ifile.nodes[0].is_leaf /\ ifile.nodes[0].num_keys = 0

\* the last call read a block with an id >= num_blocks and failed
DbReadFailed ==
    /\ dbOp.name \in {"getRecord", "deleteRecord", "readBlock"}
    /\ dbGhost.other >= 1
    /\ dbOp.arg[1] >= db.num_blocks
    /\ IF dbOp.name = "getRecord" THEN dbOp.ret = EmptyRecord ELSE dbOp.ret = FALSE

\* the step is a readBlock or writeBlock of one of the num_blocks blocks
DbExistingPageStep ==
    /\ dbOp'.name \in {"readBlock", "writeBlock"}
    /\ dbGhost'.other = dbGhost.other + 1
    /\ 0 <= dbOp'.arg[1] /\ dbOp'.arg[1] < db.num_blocks

\* the last call was a readNode of an id that is not a page of the file
BtReadFailed ==
    /\ btOp.name = "readNode" /\ btOp.ret = FALSE
    /\ btOp.arg[1] < 0 \/ btOp.arg[1] >= bt.next_node_id

\* the step is a readNode or writeNode of one of the next_node_id pages
BtExistingPageStep ==
    /\ btOp'.name \in BtPageCalls
    /\ btGhost'.muts = btGhost.muts + 1
    /\ 0 <= btOp'.arg[1] /\ btOp'.arg[1] < bt.next_node_id

\* C38: a failed page read does not disable the instance: after a
\* getRecord, deleteRecord or readBlock on a block id >= num_blocks (or a
\* readNode on an invalid node id) has failed, a following readBlock /
\* writeBlock (readNode / writeNode) of an existing page succeeds
C38_FailedReadRecovers ==
    [][/\ (DbReadFailed /\ DbExistingPageStep) => dbOp'.ret = TRUE
       /\ (BtReadFailed /\ BtExistingPageStep) => btOp'.ret = TRUE]_vars

\* C38 for the heap file alone
C38_HeapRecovers ==
    [][(DbReadFailed /\ DbExistingPageStep) => dbOp'.ret = TRUE]_vars

\* C38 for the index file alone
C38_IndexRecovers ==
    [][(BtReadFailed /\ BtExistingPageStep) => btOp'.ret = TRUE]_vars

\* C38: a read or write of an existing page succeeds on an instance whose
\* stream has not failed before
C38_GoodStreamSucceeds ==
    [][/\ (~db.failbit /\ db.is_open /\ DbExistingPageStep) => dbOp'.ret = TRUE
       /\ (~bt.failbit /\ bt.is_open /\ BtExistingPageStep) => btOp'.ret = TRUE]_vars

\* C38: a block that exists could not be read after a read past the end
C38_HeapDisabled ==
    /\ dbOp.name = "readBlock" /\ dbOp.ret = FALSE
    /\ dbGhost.other = MaxPageCalls
    /\ db.is_open /\ db.failbit
    /\ 0 <= dbOp.arg[1] /\ dbOp.arg[1] < db.num_blocks

\* C38: a node that exists could not be read after a read of an invalid id
C38_IndexDisabled ==
    /\ btOp.name = "readNode" /\ btOp.ret = FALSE
    /\ btGhost.muts = MaxPageCalls
    /\ bt.is_open /\ bt.failbit
    /\ 0 <= btOp.arg[1] /\ btOp.arg[1] < bt.next_node_id

\* the last call was an insert or a bulkLoad of at least one entry on a
\* BPTree that was never opened
UnopenedCall ==
    /\ btGhost.opens = 0 /\ ~bt.is_open
    /\ \/ btOp.name = "insert"
       \/ btOp.name = "bulkLoad" /\ btOp.arg > 0

\* C39: insert and bulkLoad on a BPTree whose file is not open return false
\* and leave root_id and next_node_id unchanged; they return true only when
\* the entries were written
C39_UnopenedRefused ==
    /\ UnopenedCall =>
          /\ ~bt.crashed
          /\ btOp.ret = FALSE
          /\ bt.root_id = BPTree_new.root_id
          /\ bt.next_node_id = BPTree_new.next_node_id
    /\ (btOp.name \in {"insert", "bulkLoad"} /\ btOp.ret = TRUE) =>
          /\ bt.is_open
          /\ TreeEntries(bt, ifile) # <<>>

\* C39, insert alone
C39_InsertRefused ==
    (UnopenedCall /\ btOp.name = "insert") => btOp.ret = FALSE

\* C39, bulkLoad alone: the call returns, with false
C39_BulkLoadRefused ==
    (UnopenedCall /\ btOp.name = "bulkLoad") => (~bt.crashed /\ btOp.ret = FALSE)

\* C39: the members and the file are what they were before the call
C39_UnopenedUnchanged ==
    UnopenedCall =>
        /\ bt.root_id = BPTree_new.root_id
        /\ bt.next_node_id = BPTree_new.next_node_id
        /\ ifile = NoIndexFile

\* C39: insert on a BPTree that was never opened has returned true
C39_InsertReportedSuccess ==
    /\ UnopenedCall /\ btOp.name = "insert"
    /\ btOp.ret = TRUE
    /\ ifile = NoIndexFile /\ bt.root_id = -1

\* C39: bulkLoad on a BPTree that was never opened has ended the process
C39_BulkLoadCrashed ==
    /\ UnopenedCall /\ btOp.name = "bulkLoad"
    /\ bt.crashed

\* the tree can be read: the file is open, the stream has not failed and the
\* process is alive
Walkable == bt.is_open /\ ~bt.failbit /\ ~bt.crashed /\ bt.root_id # -1

\* one of the five operations, called in the current state, does not return
SomeCallHangs ==
    \/ \E key \in KeyValues : BPTree_search(IdxState, key).hang
    \/ \E key \in KeyValues, ub \in ShiftOrders :
          BPTree_insert(IdxState, key, RecordPointer(0, 0), ub).hang
    \/ \E key \in KeyValues, impl \in Implementations :
          BPTree_remove(IdxState, key, impl).hang
    \/ \E min_key \in KeyValues, max_key \in KeyValues :
          /\ min_key <= max_key
          /\ \/ BPTree_rangeSearch(IdxState, min_key, max_key).hang
             \/ \E impl \in Implementations :
                   BPTree_removeRange(IdxState, min_key, max_key, impl).hang

\* the page that findLeaf(key) descends to is a leaf of the file
DescentReachesLeaf(key) ==
    LET fl == BPTree_findLeaf(IdxState, key)
    IN  /\ ~fl.hang
        /\ fl.ret \in DOMAIN ifile.nodes
        /\ ifile.nodes[fl.ret].is_leaf

\* the next_leaf chain from the leaf of the key visits no page twice and
\* ends with -1
ChainEnds(key) ==
    LET chain == LeafChain(ifile, BPTree_findLeaf(IdxState, key).ret, 2 * MaxWalk)
    IN  /\ -2 \notin SeqToSet(chain)
        /\ Cardinality(SeqToSet(chain)) = Len(chain)

\* C40: search, rangeSearch, insert, remove and removeRange terminate on every
\* reachable tree: the descent of findLeaf reaches a leaf, and the next_leaf
\* chain is acyclic and ends at -1
C40_Terminates ==
    Walkable =>
        /\ ~SomeCallHangs
        /\ \A key \in KeyValues : DescentReachesLeaf(key) /\ ChainEnds(key)

\* C40: the five operations return
C40_CallsReturn == Walkable => ~SomeCallHangs

\* C40: the descent reaches a leaf
C40_DescentReachesLeaf == Walkable => \A key \in KeyValues : DescentReachesLeaf(key)

\* C40: the chain ends
C40_ChainEnds ==
    Walkable => \A key \in KeyValues : DescentReachesLeaf(key) => ChainEnds(key)

\* C40: after the split of an internal node the descent for a key ends at a
\* child id that is no page of the file
C40_DescentLost ==
    /\ Walkable
    /\ btOp.name = "insert" /\ Len(btGhost.inserted) = MaxGrowth
    /\ \E key \in KeyValues : BPTree_findLeaf(IdxState, key).ret = -1
    /\ \E n \in DOMAIN ifile.nodes :
          ~ifile.nodes[n].is_leaf /\ ifile.nodes[n].children[1] >= FloatBase

(***************************************************************************)
(* Specifications                                                          *)
(***************************************************************************)
Init ==
    /\ db = Database_new
    /\ disk = NoFile
    /\ dbOp = [name |-> "new", arg |-> <<>>, ret |-> TRUE]
    /\ dbGhost = [inserted |-> <<>>, adds |-> 0, phase |-> "new", other |-> 0,
                  closeBlocks |-> 0, closeRecords |-> 0]
    /\ bt = BPTree_new
    /\ ifile = NoIndexFile
    /\ btOp = Call("new", <<>>, TRUE, FALSE)
    /\ btGhost = [impl |-> "any", loaded |-> <<>>, inserted |-> <<>>,
                  muts |-> 0, removed |-> FALSE, opens |-> 0]
    /\ drv = DriverStart
    /\ parser = ParserIdle
    /\ run = RunStart
    /\ codec = NoPointers

\* the heap under open / addRecord / close / getAllRecords
HeapSpec == Init /\ [][HeapNext]_vars

\* the heap under every public method
HeapAllSpec == Init /\ [][HeapAllNext]_vars

\* the index under every public method of BPTree, for either implementation
Spec == Init /\ [][Next]_vars

\* no call was made on the Database instance yet
HeapUnused ==
    /\ db = Database_new /\ disk = NoFile /\ dbOp.name = "new"
    /\ dbGhost.phase = "new" /\ dbGhost.adds = 0 /\ dbGhost.other = 0

\* no call was made on the BPTree instance yet
IndexUnused ==
    /\ bt = BPTree_new /\ ifile = NoIndexFile /\ btOp.name = "new"
    /\ btGhost.opens = 0 /\ btGhost.muts = 0

\* a run that uses one of the two components, with resetIOCounters; the
\* index continues from inputs of up to MaxEitherSize entries, and after a
\* reset with the queries that the driver makes
EitherNext ==
    \/ IndexUnused /\ HeapAllNext
    \/ IndexUnused /\ DbResetIO
    \/ HeapUnused /\ Len(btGhost.loaded) <= MaxEitherSize
          /\ btOp.name # "resetIOCounters" /\ Next
    \/ HeapUnused /\ BtResetIO
    \/ HeapUnused /\ QueryAfterReset

\* the heap or the index under every public method
EitherSpec == Init /\ [][EitherNext]_vars

\* the driver: main, task1, task2, task3, generateResultsTables
DriverSpec == Init /\ [][DriverNext]_vars

\* two pointers drawn from both ends of the heap file's ranges
PointerInit ==
    /\ db = Database_new /\ disk = NoFile
    /\ dbOp = [name |-> "new", arg |-> <<>>, ret |-> TRUE]
    /\ dbGhost = [inserted |-> <<>>, adds |-> 0, phase |-> "new", other |-> 0,
                  closeBlocks |-> 0, closeRecords |-> 0]
    /\ bt = BPTree_new /\ ifile = NoIndexFile
    /\ btOp = Call("new", <<>>, TRUE, FALSE)
    /\ btGhost = [impl |-> "any", loaded |-> <<>>, inserted |-> <<>>,
                  muts |-> 0, removed |-> FALSE, opens |-> 0]
    /\ drv = DriverStart
    /\ parser = ParserIdle
    /\ run = RunStart
    /\ \E p \in PointerSamples, q \in PointerSamples :
          codec = [NoPointers EXCEPT !.stage = "pointers", !.p = p, !.q = q]

\* the encoding of RecordPointers in leaf slots
PointerSpec == PointerInit /\ [][PointerNext]_vars

\* a tree grown by inserts, then point deletes
RemovalNext ==
    \/ btGhost.opens = 0 /\ BtOpen
    \/ \E key \in KeyValues, ub \in ShiftOrders :
          btGhost.loaded = <<>> /\ btGhost.muts = 0 /\ Insert(key, ub)
    \/ \E key \in KeyValues, impl \in Implementations : RemoveInserted(key, impl)

\* the index under insert and repeated remove, for either implementation
RemovalSpec == Init /\ [][RemovalNext]_vars

\* one of the two components: it is opened and filled, then page calls follow
\* one another on the same instance
PageNext ==
    \/ IndexUnused /\ dbGhost.other = 0 /\ DbOpen
    \/ IndexUnused /\ dbGhost.other = 0 /\ \E record \in Records : AddRecord(record)
    \/ IndexUnused /\ \E name \in DbPageCalls, block_id \in BlockIds, record_index \in SlotIds :
          DbPageCall(name, block_id, record_index)
    \/ HeapUnused /\ btGhost.opens = 0 /\ BtOpen
    \/ HeapUnused /\ \E key \in KeyValues, ub \in ShiftOrders : BuildUp /\ Insert(key, ub)
    \/ HeapUnused /\ \E name \in BtPageCalls, node_id \in -1..MaxInserts :
          BtPageCall(name, node_id)

PageSpec == Init /\ [][PageNext]_vars

\* the keys of the growing index: 0.0f and the largest key
GrowthKeys == {0, 2 * KeyUnit}

\* an index that grows by inserts
GrowthNext ==
    \/ btGhost.opens = 0 /\ BtOpen
    \/ \E key \in GrowthKeys, ub \in ShiftOrders : InsertMore(key, ub)

GrowthSpec == Init /\ [][GrowthNext]_vars

\* main on the two files: task1, task2, task3, generateResultsTables
RunSpec == Init /\ [][RunNext]_vars

\* Parser::parseFile on a header line and up to MaxLines data lines
ParserSpec == Init /\ [][ParserNext]_vars

=============================================================================
